---------------------------- MODULE Spec2Model ----------------------------
(***************************************************************************)
(* Model of the markdown + Mermaid to PDF converter (MarkdownConverter and *)
(* the CLI batch loop).                                                    *)
(*                                                                         *)
(* Text is a sequence of characters (one-character strings).  The fixed    *)
(* parts of the placeholder markup are single indivisible literals: no     *)
(* operation of the program looks inside them.                             *)
(***************************************************************************)
EXTENDS Integers, Sequences, FiniteSets, TLC

(***************************************************************************)
(* String primitives (JavaScript String methods used by the converter).    *)
(***************************************************************************)

\* the backtick character (the module's lexer cannot hold it in a string)
BQ == "BQ"

\* the characters JavaScript's \s and String.prototype.trim treat as blank
WhiteSpace == {" ", "\n", "\t", "\r"}

SubStr(s, a, b) == IF a > b THEN <<>> ELSE SubSeq(s, a, b)

Range(s) == {s[i] : i \in 1..Len(s)}

\* F applied to the value v, the value named once
With(v, F(_)) == F(v)

\* the least and the greatest element of a set of integers, d when it is empty
MinOr(S, d) == IF S = {} THEN d ELSE CHOOSE x \in S : \A y \in S : x <= y
MaxOr(S, d) == IF S = {} THEN d ELSE CHOOSE x \in S : \A y \in S : x >= y

IsPrefixAt(s, p, i) ==
    /\ i >= 1
    /\ i + Len(p) - 1 <= Len(s)
    /\ \A k \in 1..Len(p) : s[i + k - 1] = p[k]

\* String.prototype.indexOf(p, i), 1-based; 0 when p does not occur at or after i
IndexOfFrom(s, p, i) ==
    MinOr({j \in i..(Len(s) - Len(p) + 1) : IsPrefixAt(s, p, j)}, 0)

\* String.prototype.includes
Includes(s, p) == IndexOfFrom(s, p, 1) # 0

\* String.prototype.trim
Trim(s) ==
    With({i \in 1..Len(s) : s[i] \notin WhiteSpace},
         LAMBDA keep : SubStr(s, MinOr(keep, 1), MaxOr(keep, 0)))

UpperCase == {"A","B","C","D","E","F","G","H","I","J","K","L","M",
              "N","O","P","Q","R","S","T","U","V","W","X","Y","Z"}
LowerCase == {"a","b","c","d","e","f","g","h","i","j","k","l","m",
              "n","o","p","q","r","s","t","u","v","w","x","y","z"}
Digits == {"0","1","2","3","4","5","6","7","8","9"}

LowerOf == [c \in UpperCase |->
    CASE c = "A" -> "a" [] c = "B" -> "b" [] c = "C" -> "c" [] c = "D" -> "d"
      [] c = "E" -> "e" [] c = "F" -> "f" [] c = "G" -> "g" [] c = "H" -> "h"
      [] c = "I" -> "i" [] c = "J" -> "j" [] c = "K" -> "k" [] c = "L" -> "l"
      [] c = "M" -> "m" [] c = "N" -> "n" [] c = "O" -> "o" [] c = "P" -> "p"
      [] c = "Q" -> "q" [] c = "R" -> "r" [] c = "S" -> "s" [] c = "T" -> "t"
      [] c = "U" -> "u" [] c = "V" -> "v" [] c = "W" -> "w" [] c = "X" -> "x"
      [] c = "Y" -> "y" [] c = "Z" -> "z"]

\* String.prototype.toLowerCase
ToLowerCase(s) == [i \in 1..Len(s) |-> IF s[i] \in UpperCase THEN LowerOf[s[i]] ELSE s[i]]

\* code.split('\n')[0]
FirstLine(s) ==
    With(IndexOfFrom(s, <<"\n">>, 1),
         LAMBDA n : IF n = 0 THEN s ELSE SubStr(s, 1, n - 1))

(***************************************************************************)
(* The replacement-pattern expansion of String.prototype.replace(str, r):  *)
(* $$ is a dollar, $& the matched text, $BQ the text before the match and  *)
(* $' the text after it.                                                   *)
(***************************************************************************)
RECURSIVE ExpandReplacement(_, _, _, _)
ExpandReplacement(r, matched, before, after) ==
    IF r = <<>> THEN <<>>
    ELSE IF r[1] = "$" /\ Len(r) >= 2 /\ r[2] \in {"$", "&", BQ, "'"}
         THEN (CASE r[2] = "$" -> <<"$">>
                 [] r[2] = "&" -> matched
                 [] r[2] = BQ -> before
                 [] r[2] = "'" -> after)
              \o ExpandReplacement(SubStr(r, 3, Len(r)), matched, before, after)
         ELSE <<r[1]>> \o ExpandReplacement(Tail(r), matched, before, after)

\* String.prototype.replace with a string pattern: the first occurrence only
StringReplace(s, pat, r) ==
    With(IndexOfFrom(s, pat, 1), LAMBDA i :
         IF i = 0 THEN s
         ELSE With(SubStr(s, 1, i - 1), LAMBDA before :
              With(SubStr(s, i + Len(pat), Len(s)), LAMBDA after :
                   before \o ExpandReplacement(r, pat, before, after) \o after)))

(***************************************************************************)
(* extractMermaidDiagrams: mermaidRegex, matched the way the backtracking   *)
(* engine matches it: three backticks, the label (the word mermaid, or a   *)
(* brace group without a closing brace inside that contains .mermaid),     *)
(* a greedy run of blanks, a newline, the lazy body, a newline and three   *)
(* backticks.                                                              *)
(***************************************************************************)
Ticks == <<BQ,BQ,BQ>>
NlTicks == <<"\n",BQ,BQ,BQ>>
MermaidLabel == <<"m","e","r","m","a","i","d">>
DotMermaid == <<".","m","e","r","m","a","i","d">>

\* the position just after the fence label that starts at j; 0 when neither
\* alternative of the label group matches there
LabelEnd(s, j) ==
    IF IsPrefixAt(s, MermaidLabel, j) THEN j + Len(MermaidLabel)
    ELSE IF j <= Len(s) /\ s[j] = "{"
         THEN With(IndexOfFrom(s, <<"}">>, j + 1), LAMBDA close :
              With(IndexOfFrom(s, DotMermaid, j + 1), LAMBDA dot :
                   IF close # 0 /\ dot # 0 /\ dot + Len(DotMermaid) - 1 < close
                   THEN close + 1 ELSE 0))
         ELSE 0

\* the length of the run of blanks that starts at j
WsRun(s, j) ==
    MinOr({k \in j..Len(s) : s[k] \notin WhiteSpace}, Len(s) + 1) - j

NoMatch == [ok |-> FALSE, start |-> 0, end |-> 0, bodyStart |-> 0, bodyEnd |-> 0]

\* the match that starts at i: the run of blanks is greedy (the longest run that
\* still lets the rest match), the body is lazy (it stops at the first newline
\* followed by three backticks)
MatchAt(s, i) ==
    IF ~IsPrefixAt(s, Ticks, i) THEN NoMatch
    ELSE With(LabelEnd(s, i + Len(Ticks)), LAMBDA j :
         IF j = 0 THEN NoMatch
         ELSE With(MaxOr({m \in 0..WsRun(s, j) :
                            /\ j + m <= Len(s)
                            /\ s[j + m] = "\n"
                            /\ IndexOfFrom(s, NlTicks, j + m + 1) # 0}, -1), LAMBDA m :
              IF m = -1 THEN NoMatch
              ELSE With(IndexOfFrom(s, NlTicks, j + m + 1), LAMBDA e :
                   [ok |-> TRUE, start |-> i, end |-> e + Len(NlTicks),
                    bodyStart |-> j + m + 1, bodyEnd |-> e - 1])))

\* mermaidRegex.exec from lastIndex: the leftmost match at or after it
ExecFrom(s, lastIndex) ==
    With(MinOr({i \in lastIndex..Len(s) : MatchAt(s, i).ok}, 0),
         LAMBDA i : IF i = 0 THEN NoMatch ELSE MatchAt(s, i))

KwGraph == <<"g","r","a","p","h">>
KwFlowchart == <<"f","l","o","w","c","h","a","r","t">>
KwSequence == <<"s","e","q","u","e","n","c","e">>
KwClass == <<"c","l","a","s","s">>
KwState == <<"s","t","a","t","e">>
KwEr == <<"e","r">>
KwJourney == <<"j","o","u","r","n","e","y">>
KwGantt == <<"g","a","n","t","t">>
KwPie == <<"p","i","e">>
KwGitgraph == <<"g","i","t","g","r","a","p","h">>
KwMindmap == <<"m","i","n","d","m","a","p">>
KwTimeline == <<"t","i","m","e","l","i","n","e">>
KwZenuml == <<"z","e","n","u","m","l">>
KwSankey == <<"s","a","n","k","e","y">>

\* the chain of if statements over firstLine
TypeOfLine(firstLine) ==
        IF Includes(firstLine, KwGraph) \/ Includes(firstLine, KwFlowchart) THEN "flowchart"
        ELSE IF Includes(firstLine, KwSequence) THEN "sequence"
        ELSE IF Includes(firstLine, KwClass) THEN "class"
        ELSE IF Includes(firstLine, KwState) THEN "state"
        ELSE IF Includes(firstLine, KwEr) THEN "er"
        ELSE IF Includes(firstLine, KwJourney) THEN "journey"
        ELSE IF Includes(firstLine, KwGantt) THEN "gantt"
        ELSE IF Includes(firstLine, KwPie) THEN "pie"
        ELSE IF Includes(firstLine, KwGitgraph) THEN "gitgraph"
        ELSE IF Includes(firstLine, KwMindmap) THEN "mindmap"
        ELSE IF Includes(firstLine, KwTimeline) THEN "timeline"
        ELSE IF Includes(firstLine, KwZenuml) THEN "zenuml"
        ELSE IF Includes(firstLine, KwSankey) THEN "sankey"
        ELSE "unknown"

\* a classification that looks at the whole body
DetectInWholeBody(code) == TypeOfLine(ToLowerCase(Trim(code)))

detectDiagramType(code) == TypeOfLine(ToLowerCase(Trim(FirstLine(code))))

\* the while loop over mermaidRegex.exec, starting at lastIndex
RECURSIVE ExtractFrom(_, _)
ExtractFrom(s, lastIndex) ==
    With(ExecFrom(s, lastIndex), LAMBDA m :
         IF ~m.ok THEN <<>>
         ELSE <<[fullMatch |-> SubStr(s, m.start, m.end - 1),
                 code      |-> Trim(SubStr(s, m.bodyStart, m.bodyEnd)),
                 type      |-> detectDiagramType(SubStr(s, m.bodyStart, m.bodyEnd))]>>
              \o ExtractFrom(s, m.end))

extractMermaidDiagrams(markdownContent) == ExtractFrom(markdownContent, 1)

(***************************************************************************)
(* encodeURIComponent / decodeURIComponent over the ASCII alphabet, and    *)
(* the lone surrogate, which encodeURIComponent rejects with a URIError.   *)
(***************************************************************************)
Ascii == <<
    "NUL","x01","x02","x03","x04","x05","x06","x07","x08","\t","\n","x0B","\f","\r","x0E","x0F",
    "x10","x11","x12","x13","x14","x15","x16","x17","x18","x19","x1A","x1B","x1C","x1D","x1E","x1F",
    " ","!","\"","#","$","%","&","'","(",")","*","+",",","-",".","/",
    "0","1","2","3","4","5","6","7","8","9",":",";","<","=",">","?",
    "@","A","B","C","D","E","F","G","H","I","J","K","L","M","N","O",
    "P","Q","R","S","T","U","V","W","X","Y","Z","[","\\","]","^","_",
    BQ,"a","b","c","d","e","f","g","h","i","j","k","l","m","n","o",
    "p","q","r","s","t","u","v","w","x","y","z","{","|","}","~","DEL">>

LoneSurrogate == "uD800"

HexDigits == <<"0","1","2","3","4","5","6","7","8","9","A","B","C","D","E","F">>

\* the characters encodeURIComponent leaves as they are
Unreserved == LowerCase \cup UpperCase \cup Digits \cup {"-","_",".","!","~","*","'","(",")"}

CharCode(c) == (CHOOSE i \in 1..Len(Ascii) : Ascii[i] = c) - 1

EncodeChar(c) ==
    IF c \in Unreserved THEN <<c>>
    ELSE <<"%", HexDigits[(CharCode(c) \div 16) + 1], HexDigits[(CharCode(c) % 16) + 1]>>

RECURSIVE EncodeAll(_)
EncodeAll(s) == IF s = <<>> THEN <<>> ELSE EncodeChar(Head(s)) \o EncodeAll(Tail(s))

\* [ok |-> FALSE] stands for the URIError thrown
\* no encoding at all: the string itself
EncodeNothing(s) == [ok |-> TRUE, val |-> s]

encodeURIComponent(s) ==
    IF \E i \in 1..Len(s) : s[i] = LoneSurrogate
    THEN [ok |-> FALSE, val |-> <<>>]
    ELSE [ok |-> TRUE, val |-> EncodeAll(s)]

HexValue(c) ==
    IF \E i \in 1..16 : HexDigits[i] = c THEN (CHOOSE i \in 1..16 : HexDigits[i] = c) - 1
    ELSE IF c \in {"a","b","c","d","e","f"}
         THEN (CHOOSE i \in 11..16 : LowerOf[HexDigits[i]] = c) - 1
         ELSE -1

\* an escape of a byte below 0x80 is one character; anything else after a
\* percent sign is outside the ASCII alphabet of the model or malformed
RECURSIVE decodeURIComponent(_)
decodeURIComponent(s) ==
    IF s = <<>> THEN [ok |-> TRUE, val |-> <<>>]
    ELSE IF s[1] = "%"
         THEN IF Len(s) >= 3 /\ HexValue(s[2]) >= 0 /\ HexValue(s[2]) < 8 /\ HexValue(s[3]) >= 0
              THEN With(decodeURIComponent(SubStr(s, 4, Len(s))), LAMBDA rest :
                        [ok  |-> rest.ok,
                         val |-> <<Ascii[16 * HexValue(s[2]) + HexValue(s[3]) + 1]>>
                                 \o rest.val])
              ELSE [ok |-> FALSE, val |-> <<>>]
         ELSE With(decodeURIComponent(Tail(s)), LAMBDA rest :
                   [ok |-> rest.ok, val |-> <<s[1]>> \o rest.val])

(***************************************************************************)
(* The placeholder template of processMarkdown.  Its fixed parts are        *)
(* indivisible literals.                                                   *)
(***************************************************************************)
PhOpen == "<div class=\"mermaid-diagram\" data-mermaid=\""
PhAttrEnd == "\">"
PhInner == "<div class=\"mermaid-placeholder\">Rendering diagram...</div>"
PhClose == "</div>"

\* the decimal text of a loop index (one digit is enough for the documents here)
IndexText(index) == HexDigits[index + 1]

\* a template that also writes the type and the index of the diagram
PlaceholderWithTypeAndIndex(diagram, index, encoded) ==
    <<"\n", "\n", PhOpen>> \o encoded
    \o <<"\"", " data-type=\"", diagram.type, "\"", " data-index=\"", IndexText(index)>>
    \o <<PhAttrEnd, "\n", PhInner, "\n", PhClose, "\n", "\n">>

\* the template literal, inside the loop over the diagrams (diagram, i), given the
\* encoded diagram source
PlaceholderOf(diagram, index, encoded) ==
    <<"\n", "\n", PhOpen>> \o encoded \o <<PhAttrEnd, "\n", PhInner, "\n", PhClose, "\n", "\n">>

(***************************************************************************)
(* marked(processedContent), with the options gfm: true, breaks: false     *)
(* set in the constructor: the block structure of the text.  A fenced code *)
(* block (backticks or tildes) runs to its closing fence or to the end of  *)
(* the text and its content comes out escaped; a line that starts with a   *)
(* block-level tag starts an HTML block, which runs to the next blank line *)
(* and comes out as it is; other lines are paragraph text.  The only HTML  *)
(* of the modelled documents is placeholder markup.                        *)
(***************************************************************************)
RECURSIVE SplitLines(_)
SplitLines(s) ==
    With(IndexOfFrom(s, <<"\n">>, 1), LAMBDA n :
         IF n = 0 THEN <<s>>
         ELSE <<SubStr(s, 1, n - 1)>> \o SplitLines(SubStr(s, n + 1, Len(s))))

RECURSIVE JoinLines(_)
JoinLines(ls) ==
    IF ls = <<>> THEN <<>>
    ELSE IF Len(ls) = 1 THEN ls[1]
    ELSE ls[1] \o <<"\n">> \o JoinLines(Tail(ls))

IsBlankLine(l) == \A i \in 1..Len(l) : l[i] \in {" ", "\t", "\r"}

\* the length of the run of character c that starts line l
RunOf(l, c) ==
    MinOr({k \in 1..Len(l) : l[k] # c}, Len(l) + 1) - 1

\* up to three spaces of indentation are allowed before a fence or a tag
StripIndent(l) ==
    With(RunOf(l, " "), LAMBDA n : IF n <= 3 THEN SubStr(l, n + 1, Len(l)) ELSE l)

\* the fence character of an opening fence line, "" when l opens no fence
FenceChar(l) ==
    With(StripIndent(l), LAMBDA t :
    With(RunOf(t, BQ), LAMBDA n :
         IF n >= 3 /\ \A k \in (n + 1)..Len(t) : t[k] # BQ THEN BQ
         ELSE IF RunOf(t, "~") >= 3 THEN "~"
         ELSE ""))

\* l closes a fence opened by n characters c
ClosesFence(l, c, n) ==
    With(StripIndent(l), LAMBDA t :
         /\ RunOf(t, c) >= n
         /\ \A k \in (n + 1)..Len(t) : t[k] \in {"~", BQ, " "}
         /\ \A k \in (n + 1)..Len(t) : t[k] = " " => \A j \in k..Len(t) : t[j] = " ")

IsHtmlStart(l) ==
    With(StripIndent(l), LAMBDA t : t # <<>> /\ t[1] \in {PhOpen, PhInner, PhClose})

\* the first line at or after i that satisfies P, Len(ls) + 1 when there is none
FirstLineFrom(ls, i, P(_)) ==
    MinOr({j \in i..Len(ls) : P(ls[j])}, Len(ls) + 1)

\* the info string of an opening fence line of n fence characters
InfoString(l, n) == With(StripIndent(l), LAMBDA t : Trim(SubStr(t, n + 1, Len(t))))

\* a paragraph ends at a blank line, at an opening fence and at an HTML block
EndsParagraph(l) == IsBlankLine(l) \/ FenceChar(l) # "" \/ IsHtmlStart(l)

RECURSIVE BlocksFrom(_, _)
BlocksFrom(ls, i) ==
    IF i > Len(ls) THEN <<>>
    ELSE IF IsBlankLine(ls[i]) THEN BlocksFrom(ls, i + 1)
    ELSE IF FenceChar(ls[i]) # ""
         THEN With(FenceChar(ls[i]), LAMBDA c :
              With(RunOf(StripIndent(ls[i]), c), LAMBDA n :
              With(FirstLineFrom(ls, i + 1, LAMBDA l : ClosesFence(l, c, n)), LAMBDA j :
                   <<[kind |-> "code", lang |-> InfoString(ls[i], n),
                      text |-> JoinLines(SubStr(ls, i + 1, j - 1))]>>
                   \o BlocksFrom(ls, j + 1))))
    ELSE IF IsHtmlStart(ls[i])
         THEN With(FirstLineFrom(ls, i + 1, IsBlankLine), LAMBDA j :
                   <<[kind |-> "html", lang |-> <<>>, text |-> JoinLines(SubStr(ls, i, j - 1))]>>
                   \o BlocksFrom(ls, j))
    ELSE With(FirstLineFrom(ls, i + 1, EndsParagraph), LAMBDA j :
              <<[kind |-> "paragraph", lang |-> <<>>, text |-> JoinLines(SubStr(ls, i, j - 1))]>>
              \o BlocksFrom(ls, j))

marked(text) == BlocksFrom(SplitLines(text), 1)

\* the complete document: the style sheet, the bootstrap script and the body
wrapInHtmlDocument(htmlContent) ==
    [css |-> TRUE, mermaidScript |-> TRUE, body |-> htmlContent]

(***************************************************************************)
(* processMarkdown: extract, substitute the placeholders one by one, run   *)
(* marked over the result, wrap.  The debug log line of each substitution  *)
(* is kept (it is the only place the index and the type go to).            *)
(***************************************************************************)
\* the loop with the raw diagram code in the attribute instead of the encoded one
RECURSIVE ReplaceUnencoded(_, _, _)
ReplaceUnencoded(content, diagrams, i) ==
    IF i > Len(diagrams) THEN [ok |-> TRUE, content |-> content]
    ELSE ReplaceUnencoded(StringReplace(content, diagrams[i].fullMatch,
                                        PlaceholderOf(diagrams[i], i - 1, diagrams[i].code)),
                          diagrams, i + 1)

RECURSIVE ReplaceFrom(_, _, _)
ReplaceFrom(content, diagrams, i) ==
    IF i > Len(diagrams) THEN [ok |-> TRUE, content |-> content]
    ELSE With(encodeURIComponent(diagrams[i].code), LAMBDA enc :
              IF ~enc.ok THEN [ok |-> FALSE, content |-> content]
              ELSE ReplaceFrom(StringReplace(content, diagrams[i].fullMatch,
                                             PlaceholderOf(diagrams[i], i - 1, enc.val)),
                               diagrams, i + 1))

processMarkdown(markdownContent) ==
    With(extractMermaidDiagrams(markdownContent), LAMBDA mermaidDiagrams :
    With(ReplaceFrom(markdownContent, mermaidDiagrams, 1), LAMBDA replaced :
         IF ~replaced.ok
         THEN [ok |-> FALSE, error |-> "URI malformed", processedContent |-> replaced.content,
               debugLog |-> <<>>, fullHtml |-> wrapInHtmlDocument(<<>>)]
         ELSE [ok |-> TRUE, error |-> "", processedContent |-> replaced.content,
               debugLog |-> [i \in 1..Len(mermaidDiagrams) |->
                                [index |-> i - 1, type |-> mermaidDiagrams[i].type]],
               fullHtml |-> wrapInHtmlDocument(marked(replaced.content))]))

(***************************************************************************)
(* document.querySelectorAll('.mermaid-diagram') on the loaded document,   *)
(* as the data-mermaid attribute values in document order: the attribute   *)
(* value runs from the opening literal to the next double quote.           *)
(***************************************************************************)
RECURSIVE AttributesIn(_)
AttributesIn(t) ==
    With(IndexOfFrom(t, <<PhOpen>>, 1), LAMBDA o :
         IF o = 0 THEN <<>>
         ELSE With(MinOr({k \in (o + 1)..Len(t) : t[k] \in {PhAttrEnd, "\""}}, Len(t) + 1),
                   LAMBDA q : <<SubStr(t, o + 1, q - 1)>>
                              \o AttributesIn(SubStr(t, q, Len(t)))))

RECURSIVE PlaceholdersOf(_)
PlaceholdersOf(blocks) ==
    IF blocks = <<>> THEN <<>>
    ELSE (IF Head(blocks).kind = "html" THEN AttributesIn(Head(blocks).text) ELSE <<>>)
         \o PlaceholdersOf(Tail(blocks))

querySelectorAll(fullHtml) == PlaceholdersOf(fullHtml.body)

(***************************************************************************)
(* The program state: the CLI batch loop (main), the one MarkdownConverter *)
(* it reuses for every file, the browsers and pages puppeteer has created, *)
(* and the document loaded in the current page.                            *)
(***************************************************************************)
VARIABLES
    pc,               \* the statement main / convertToPdf / generatePdf is at
    nFiles,           \* markdownFiles.length
    fileIdx,          \* files the batch loop has started
    successCount,     \* main: successCount
    errorCount,       \* main: errorCount
    debugEnabled,     \* MARKDOWN_MERMAIDJS_TO_PDF_DEBUG is '1' or 'true'
    input,            \* the file being converted: is it readable, its text
    this,             \* the converter's fields: browser, page, mermaid
    browsers,         \* every browser launched so far
    pages,            \* every page opened so far
    markdownContent,  \* convertToPdf: markdownContent
    htmlContent,      \* convertToPdf: htmlContent (the assembled document)
    dom,              \* the document loaded in this.page
    loop,             \* the locals of the render loop inside page.evaluate
    renderStatus,     \* generatePdf: renderStatus
    error,            \* the exception convertToPdf is propagating
    outcome,          \* what convertToPdf delivered to its caller
    logged,           \* what the conversion wrote to the logger
    hist,             \* observations of the current conversion
    cli,              \* main: the input directory, markdownFiles, the files
                      \* attempted and written, the exit status
    text,             \* the text functions applied on their own (TextSpec)
    release           \* scripts/release.js: the ReleaseManager and what it touches

vars == <<pc, nFiles, fileIdx, successCount, errorCount, debugEnabled, input, this,
          browsers, pages, markdownContent, htmlContent, dom, loop, renderStatus,
          error, outcome, logged, hist, cli, text, release>>

\* the variables the conversion pipeline never touches
sideVars == <<text, release>>

\* the bounds of the model
MaxFiles == 2
MaxDiagrams == 2

Null == 0
NoError == <<>>

ReadPrefix == "Failed to read markdown file: "
PdfPrefix == "PDF generation failed: "

\* the sample diagram fence and the documents of the batch: n diagram fences
\* (all with the same source) after a line of text.  A file decoded as utf8
\* holds no lone surrogate (ill-formed bytes become U+FFFD), so no document of
\* the batch makes encodeURIComponent throw.
GraphBody == KwGraph \o <<" ", "T", "D", "\n", "A", "-", "-", ">", "B">>
FenceOf(body) == Ticks \o MermaidLabel \o <<"\n">> \o body \o NlTicks

RECURSIVE DocWith(_)
DocWith(n) ==
    IF n = 0 THEN <<"#", " ", "T", "\n">>
    ELSE DocWith(n - 1) \o <<"\n">> \o FenceOf(GraphBody) \o <<"\n">>

BatchDocs == {DocWith(n) : n \in 0..MaxDiagrams}

NoDom == [mermaid |-> FALSE, diagrams |-> <<>>, bootPending |-> {}, debugDiv |-> "none"]
NoLoop == [i |-> 0, rendered |-> 0, failed |-> 0]
NoStatus == [total |-> -1, rendered |-> -1, failed |-> -1]
NoLog == [timing |-> {}, renderStatus |-> NoStatus, pdfTiming |-> FALSE]
\* the value of a call that returns nothing, set against a result object
Undefined == [defined |-> FALSE, timing |-> {}, renderStatus |-> NoStatus]
NoOutcome == [kind |-> "pending", value |-> Undefined, error |-> NoError]
NoText == [doc |-> <<>>, diagrams |-> <<>>, body |-> <<>>, type |-> "",
           processed |-> [ok |-> TRUE, error |-> "", processedContent |-> <<>>,
                          debugLog |-> <<>>, fullHtml |-> wrapInHtmlDocument(<<>>)]]

\* main before it has looked at the input directory
NoCli == [exists |-> TRUE, files |-> <<>>, markdownFiles |-> <<>>, attempts |-> <<>>,
          written |-> <<>>, exitCode |-> <<>>]

\* the entries of the input directory, in listing order; a run sees the first n
Directory ==
    <<<<"a", ".", "m", "d", ".", "t", "x", "t">>,
      <<"a", ".", "m", "d">>,
      <<"a", ".", "M", "a", "r", "k", "D", "o", "w", "n">>,
      <<"b", ".", "m", "d">>>>

\* String.prototype.endsWith
EndsWith(s, suffix) == IsPrefixAt(s, suffix, Len(s) - Len(suffix) + 1)

\* the filter of main: file.toLowerCase().endsWith('.md') || ...endsWith('.markdown')
IsMarkdown(file) ==
    \/ EndsWith(ToLowerCase(file), <<".", "m", "d">>)
    \/ EndsWith(ToLowerCase(file), <<".", "m", "a", "r", "k", "d", "o", "w", "n">>)

\* file.replace(/\.(md|markdown)$/i, '.pdf')
OutputFile(file) ==
    With(MaxOr({n \in {3, 9} : n <= Len(file) /\
                   ToLowerCase(SubStr(file, Len(file) - n + 1, Len(file)))
                       \in {<<".", "m", "d">>,
                            <<".", "m", "a", "r", "k", "d", "o", "w", "n">>}}, 0),
         LAMBDA n : IF n = 0 THEN file
                    ELSE SubStr(file, 1, Len(file) - n) \o <<".", "p", "d", "f">>)

\* a version string: major.minor.patch with an optional -n suffix (pre is <<>>
\* or <<n>>); nan marks a patch field that prints as NaN
NoVersion == [major |-> 0, minor |-> 0, patch |-> 0, pre |-> <<>>, nan |-> FALSE]

\* the ReleaseManager after its constructor, the files and the repository
NoRelease == [pc |-> "idle", argv |-> <<>>, releaseType |-> <<>>, dryRun |-> FALSE,
              skipTests |-> FALSE, force |-> FALSE,
              currentVersion |-> NoVersion, newVersion |-> NoVersion,
              packageJson |-> NoVersion,
              disk |-> [packageJson |-> NoVersion, dockerfile |-> NoVersion],
              original |-> [packageJson |-> NoVersion, dockerfile |-> NoVersion],
              dirty |-> FALSE, exec |-> <<>>, exitCode |-> <<>>]

HistInit == [faults |-> {}, outcomes |-> <<>>, written |-> <<>>, renderCalls |-> <<>>, loopInFlight |-> FALSE,
             pdfCalls |-> 0, pdfDone |-> FALSE, cleanupCalls |-> 0, pageCloseThrew |-> FALSE,
             browserCloseThrew |-> FALSE, browserCloseCalls |-> 0,
             thrown |-> 0, launched |-> 0, errorBeforeCleanup |-> NoError,
             timing |-> {}, waited |-> 0]

Init ==
    /\ pc = "start"
    /\ nFiles = 0
    /\ \E exists \in BOOLEAN :
       \E n \in (IF exists THEN 1..(MaxFiles + 1) ELSE {0}) :
          cli = [NoCli EXCEPT !.exists = exists, !.files = SubStr(Directory, 1, n)]
    /\ fileIdx = 0
    /\ successCount = 0
    /\ errorCount = 0
    /\ debugEnabled \in BOOLEAN
    /\ input = [readable |-> TRUE, doc |-> <<>>]
    /\ this = [browser |-> Null, page |-> Null, mermaid |-> FALSE]
    /\ browsers = <<>>
    /\ pages = <<>>
    /\ markdownContent = <<>>
    /\ htmlContent = wrapInHtmlDocument(<<>>)
    /\ dom = NoDom
    /\ loop = NoLoop
    /\ renderStatus = NoStatus
    /\ error = NoError
    /\ outcome = NoOutcome
    /\ logged = NoLog
    /\ hist = HistInit
    /\ text = NoText
    /\ release = NoRelease

(***************************************************************************)
(* convertToPdf.  A rejected await inside the try block runs the catch     *)
(* blocks at once (generatePdf's wraps the cause, convertToPdf's logs the  *)
(* timing and rethrows), so control is then at the finally block with the  *)
(* error pending.                                                          *)
(***************************************************************************)
mainVars == <<nFiles, fileIdx, successCount, errorCount, debugEnabled, cli>>
worldVars == <<this, browsers, pages>>

\* the timing object as logged: the buckets measured so far and the total
TimingLogged(h) == h.timing \cup {"total"}

\* a rejection that reaches the caller without passing the finally block
ThrowSkipsCleanup(h, stage, prefix, cause) ==
    /\ error' = <<prefix, cause>>
    /\ hist' = [h EXCEPT !.faults = @ \cup {stage}]
    /\ logged' = [logged EXCEPT !.timing = TimingLogged(h)]
    /\ pc' = "settle"

\* a rejection that reaches the caller with the bare cause, whatever step failed
ThrowUnwrapped(h, stage, prefix, cause) ==
    /\ error' = <<"", cause>>
    /\ hist' = [h EXCEPT !.faults = @ \cup {stage}]
    /\ logged' = [logged EXCEPT !.timing = TimingLogged(h)]
    /\ pc' = "cleanupPage"

Throw(h, stage, prefix, cause) ==
    /\ error' = <<prefix, cause>>
    /\ hist' = [h EXCEPT !.faults = @ \cup {stage}]
    /\ logged' = [logged EXCEPT !.timing = TimingLogged(h)]
    /\ pc' = "cleanupPage"

\* main up to the for loop: the input directory must exist, the output directory
\* is ensured and the input directory listed (a failure of either reaches the
\* outer catch), and without markdown files the process exits with status 0
MainStart ==
    /\ pc = "start"
    /\ \E ok \in BOOLEAN :
       \E found \in {SelectSeq(cli.files, IsMarkdown)} :
         IF ~cli.exists \/ ~ok
         THEN /\ cli' = [cli EXCEPT !.exitCode = <<1>>]
              /\ pc' = "exit"
              /\ UNCHANGED nFiles
         ELSE /\ cli' = [cli EXCEPT !.markdownFiles = found,
                                    !.exitCode = IF found = <<>> THEN <<0>> ELSE <<>>]
              /\ nFiles' = Len(found)
              /\ pc' = IF found = <<>> THEN "exit" ELSE "main"
    /\ UNCHANGED <<fileIdx, successCount, errorCount, debugEnabled, input, worldVars,
                   markdownContent, htmlContent, dom, loop, renderStatus, error, outcome,
                   logged, hist, sideVars>>

\* main: the body of the for loop up to the call of converter.convertToPdf
StartConversion ==
    /\ pc = "main"
    /\ fileIdx < nFiles
    /\ \/ \E d \in BatchDocs : input' = [readable |-> TRUE, doc |-> d]
       \/ input' = [readable |-> FALSE, doc |-> <<>>]
    /\ fileIdx' = fileIdx + 1
    /\ cli' = [cli EXCEPT !.attempts =
                  Append(@, [file |-> cli.markdownFiles[fileIdx + 1],
                             outputFile |-> OutputFile(cli.markdownFiles[fileIdx + 1])])]
    /\ markdownContent' = <<>>
    /\ htmlContent' = wrapInHtmlDocument(<<>>)
    /\ dom' = NoDom
    /\ loop' = NoLoop
    /\ renderStatus' = NoStatus
    /\ error' = NoError
    /\ outcome' = NoOutcome
    /\ logged' = NoLog
    /\ hist' = HistInit
    /\ pc' = "initializeMermaid"
    /\ UNCHANGED <<nFiles, successCount, errorCount, debugEnabled, worldVars, sideVars>>

initializeMermaid ==
    /\ pc = "initializeMermaid"
    /\ IF this.mermaid
       THEN /\ pc' = "readMarkdownFile"
            /\ UNCHANGED <<this, error, hist, logged>>
       ELSE \E r \in {"ok", "importFails", "jsdomFails"} :
              /\ this' = [this EXCEPT !.mermaid = (r # "importFails")]
              /\ IF r = "ok"
                 THEN /\ pc' = "readMarkdownFile"
                      /\ UNCHANGED <<error, hist, logged>>
                 ELSE Throw(hist, "initializeMermaid", "", "Cannot find module")
    /\ UNCHANGED <<mainVars, input, browsers, pages, markdownContent, htmlContent, dom,
                   loop, renderStatus, outcome, sideVars>>

\* a read whose failure is swallowed: the conversion goes on with empty content
ReadFailureGivesEmpty ==
    /\ pc = "readMarkdownFile"
    /\ markdownContent' = IF input.readable THEN input.doc ELSE <<>>
    /\ hist' = [hist EXCEPT !.timing = @ \cup {"readFile"}]
    /\ pc' = "processMarkdown"
    /\ UNCHANGED <<error, logged>>
    /\ UNCHANGED <<mainVars, input, worldVars, htmlContent, dom, loop, renderStatus,
                   outcome, sideVars>>

readMarkdownFile ==
    /\ pc = "readMarkdownFile"
    /\ IF input.readable
       THEN /\ markdownContent' = input.doc
            /\ hist' = [hist EXCEPT !.timing = @ \cup {"readFile"}]
            /\ pc' = "processMarkdown"
            /\ UNCHANGED <<error, logged>>
       ELSE /\ Throw(hist, "readMarkdownFile", ReadPrefix, "ENOENT")
            /\ UNCHANGED markdownContent
    /\ UNCHANGED <<mainVars, input, worldVars, htmlContent, dom, loop, renderStatus,
                   outcome, sideVars>>

ProcessMarkdownStep ==
    /\ pc = "processMarkdown"
    /\ \E r \in {processMarkdown(markdownContent)} :
         IF r.ok
         THEN /\ htmlContent' = r.fullHtml
              /\ hist' = [hist EXCEPT !.timing = @ \cup {"processMarkdown"}]
              /\ pc' = "launch"
              /\ UNCHANGED <<error, logged>>
         ELSE /\ Throw(hist, "processMarkdown", "", r.error)
              /\ UNCHANGED htmlContent
    /\ UNCHANGED <<mainVars, input, worldVars, markdownContent, dom, loop, renderStatus,
                   outcome, sideVars>>

(***************************************************************************)
(* generatePdf                                                             *)
(***************************************************************************)
Launch ==
    /\ pc = "launch"
    /\ \E ok \in BOOLEAN :
         IF ok
         THEN /\ browsers' = Append(browsers, [live |-> TRUE, closeCalls |-> 0,
                                               closeThrew |-> FALSE])
              /\ this' = [this EXCEPT !.browser = Len(browsers) + 1]
              /\ hist' = [hist EXCEPT !.launched = @ + 1]
              /\ pc' = "newPage"
              /\ UNCHANGED <<error, logged>>
         ELSE /\ Throw(hist, "launch", PdfPrefix, "Failed to launch the browser process")
              /\ UNCHANGED <<browsers, this>>
    /\ UNCHANGED <<mainVars, input, pages, markdownContent, htmlContent, dom, loop,
                   renderStatus, outcome, sideVars>>

NewPage ==
    /\ pc = "newPage"
    /\ \E ok \in BOOLEAN :
         IF ok
         THEN /\ pages' = Append(pages, [open |-> TRUE, closeCalls |-> 0,
                                         browser |-> this.browser])
              /\ this' = [this EXCEPT !.page = Len(pages) + 1]
              /\ hist' = [hist EXCEPT !.timing = @ \cup {"browserInit"}]
              /\ pc' = "setContent"
              /\ UNCHANGED <<error, logged>>
         ELSE /\ Throw(hist, "newPage", PdfPrefix, "Target closed")
              /\ UNCHANGED <<pages, this>>
    /\ UNCHANGED <<mainVars, input, browsers, markdownContent, htmlContent, dom, loop,
                   renderStatus, outcome, sideVars>>

\* the placeholders the DOMContentLoaded handler of the bootstrap script starts a
\* render for: forEach stops at the first data-mermaid that does not decode
BootStarted(attrs) ==
    {k \in 1..Len(attrs) : \A j \in 1..k : decodeURIComponent(attrs[j]).ok}

\* page.setContent(htmlContent, networkidle0).  The renderer script in the head is
\* parser-blocking: when it loads, window.mermaid is defined, the inline script
\* registers the DOMContentLoaded handler and the handler calls mermaid.render for
\* the placeholders without awaiting; when it does not load, the inline script
\* throws at mermaid.initialize and registers nothing.
SetContent ==
    /\ pc = "setContent"
    /\ \E attrs \in {querySelectorAll(htmlContent)} :
       \E fresh \in {[k \in 1..Len(attrs) |->
                        [attr |-> attrs[k], content |-> "placeholder", innerHTML |-> <<PhInner>>,
                         writes |-> 0]]} :
       \E started \in {BootStarted(attrs)} :
           \E r \in {"scriptLoaded", "scriptMissing", "fails"} :
             CASE r = "scriptLoaded" ->
                    /\ dom' = [mermaid |-> TRUE, diagrams |-> fresh,
                               bootPending |-> started, debugDiv |-> "none"]
                    /\ hist' = [hist EXCEPT
                                  !.timing = @ \cup {"contentSet"},
                                  !.outcomes = [k \in 1..Len(attrs) |-> "none"],
                                  !.written = [k \in 1..Len(attrs) |-> <<>>],
                                  !.renderCalls = [k \in 1..Len(attrs) |->
                                      IF k \in started THEN 1 ELSE 0]]
                    /\ pc' = "waitForFunction"
                    /\ UNCHANGED <<error, logged>>
               [] r = "scriptMissing" ->
                    /\ dom' = [mermaid |-> FALSE, diagrams |-> fresh,
                               bootPending |-> {}, debugDiv |-> "none"]
                    /\ hist' = [hist EXCEPT
                                  !.timing = @ \cup {"contentSet"},
                                  !.outcomes = [k \in 1..Len(attrs) |-> "none"],
                                  !.written = [k \in 1..Len(attrs) |-> <<>>],
                                  !.renderCalls = [k \in 1..Len(attrs) |-> 0]]
                    /\ pc' = "waitForFunction"
                    /\ UNCHANGED <<error, logged>>
               [] r = "fails" ->
                    /\ Throw(hist, "setContent", PdfPrefix, "Navigation timeout")
                    /\ UNCHANGED dom
    /\ UNCHANGED <<mainVars, input, worldVars, markdownContent, htmlContent, loop,
                   renderStatus, outcome, sideVars>>

\* the fixed parts of the error markup and the message of a failed render
ErrOpen == "<div style=\"color: red; border: 1px solid red; padding: 10px;\">Mermaid Diagram Error: "
ErrClose == "</div>"
RenderErrorMessage == "Parse error"
SvgMarkup == "<svg>"

\* an error markup that also shows the source of the diagram
ErrorMarkerWithSource(code, message) == <<ErrOpen, message>> \o code \o <<ErrClose>>

\* the markup the catch block writes for a diagram with source code
ErrorMarker(code, message) == <<ErrOpen, message, ErrClose>>

\* what a settled render writes to diagram.innerHTML: result.svg or the error markup
InnerHtmlOf(r, code) ==
    IF r = "svg" THEN <<SvgMarkup>> ELSE ErrorMarker(code, RenderErrorMessage)

PageIsOpen == this.page # Null /\ pages[this.page].open

\* a promise of the bootstrap handler settles: its then or catch callback writes
\* the placeholder's innerHTML
BootSettle(k) ==
    /\ pc \notin {"main", "returned", "exit", "textStart", "textExtracted", "textDone"}
    /\ PageIsOpen
    /\ k \in dom.bootPending
    /\ \E r \in {"svg", "error"} :
         dom' = [dom EXCEPT !.bootPending = @ \ {k},
                            !.diagrams[k].content = r,
                            !.diagrams[k].innerHTML =
                                InnerHtmlOf(r, decodeURIComponent(dom.diagrams[k].attr).val),
                            !.diagrams[k].writes = @ + 1]
    /\ UNCHANGED <<pc, mainVars, input, worldVars, markdownContent, htmlContent, loop,
                   renderStatus, error, outcome, logged, hist, sideVars>>

\* the bounded wait of page.waitForFunction, in milliseconds
MermaidWaitTimeout == 10000

\* page.waitForFunction(typeof window.mermaid !== 'undefined', timeout): it resolves
\* at once when the script has loaded and otherwise rejects when the wait runs out
\* a wait that resolves whether or not the renderer is there
WaitNeverTimesOut(defined) == "resolved"

WaitOutcome(defined) == IF defined THEN "resolved" ELSE "timeout"

\* a wait that is skipped when the document holds no placeholder
WaitOnlyForDiagrams ==
    /\ pc = "waitForFunction"
    /\ IF WaitOutcome(dom.mermaid) = "resolved" \/ Len(dom.diagrams) = 0
       THEN /\ hist' = [hist EXCEPT !.timing = @ \cup {"mermaidLoad"}]
            /\ pc' = IF debugEnabled THEN "debugSetup" ELSE "evaluate"
            /\ UNCHANGED <<error, logged>>
       ELSE Throw([hist EXCEPT !.waited = MermaidWaitTimeout], "waitForFunction",
                  PdfPrefix, "Waiting failed: timeout exceeded")
    /\ UNCHANGED <<mainVars, input, worldVars, markdownContent, htmlContent, dom, loop,
                   renderStatus, outcome, sideVars>>

WaitForMermaid ==
    /\ pc = "waitForFunction"
    /\ IF WaitOutcome(dom.mermaid) = "resolved"
       THEN /\ hist' = [hist EXCEPT !.timing = @ \cup {"mermaidLoad"}]
            /\ pc' = IF debugEnabled THEN "debugSetup" ELSE "evaluate"
            /\ UNCHANGED <<error, logged>>
       ELSE Throw([hist EXCEPT !.waited = MermaidWaitTimeout], "waitForFunction",
                  PdfPrefix, "Waiting failed: timeout exceeded")
    /\ UNCHANGED <<mainVars, input, worldVars, markdownContent, htmlContent, dom, loop,
                   renderStatus, outcome, sideVars>>

\* if (debugEnabled) page.evaluate(...): the overlay element is added
DebugSetup ==
    /\ pc = "debugSetup"
    /\ \E ok \in BOOLEAN :
         IF ok
         THEN /\ dom' = [dom EXCEPT !.debugDiv = "Waiting for diagrams to render..."]
              /\ pc' = "evaluate"
              /\ UNCHANGED <<error, hist, logged>>
         ELSE /\ Throw(hist, "debugSetup", PdfPrefix, "Execution context was destroyed")
              /\ UNCHANGED dom
    /\ UNCHANGED <<mainVars, input, worldVars, markdownContent, htmlContent, loop,
                   renderStatus, outcome, sideVars>>

(***************************************************************************)
(* The render loop inside page.evaluate.  Each await in it is a point      *)
(* where the callbacks of the bootstrap handler can run.                   *)
(***************************************************************************)
DebugText(t) == IF debugEnabled /\ dom.debugDiv # "none" THEN t ELSE dom.debugDiv

\* a loop that counts every iteration as rendered
CountEveryResultRendered(l, r) ==
    [i |-> l.i + 1, rendered |-> l.rendered + 1, failed |-> l.failed]

\* the loop's locals after the iteration ended with result r
CountAfter(l, r) ==
    [i        |-> l.i + 1,
     rendered |-> IF r = "svg" THEN l.rendered + 1 ELSE l.rendered,
     failed   |-> IF r = "error" THEN l.failed + 1 ELSE l.failed]

\* the value the evaluate callback returns after the loop
StatusOf(l, n) == [total |-> n, rendered |-> l.rendered, failed |-> l.failed]

\* page.evaluate starts: querySelectorAll, the early return for no diagrams
\* a render step that reports its status without going through the loop
EvaluateSkipsLoop ==
    /\ pc = "evaluate"
    /\ renderStatus' = [total |-> Len(dom.diagrams), rendered |-> 0, failed |-> 0]
    /\ pc' = "logStatus"
    /\ loop' = NoLoop
    /\ UNCHANGED <<dom, error, hist, logged>>
    /\ UNCHANGED <<mainVars, input, worldVars, markdownContent, htmlContent, outcome, sideVars>>

\* a render step that rejects a document without placeholders
EvaluateRejectsEmpty ==
    /\ pc = "evaluate"
    /\ IF Len(dom.diagrams) = 0
       THEN /\ error' = <<PdfPrefix, "No diagrams found.">>
            /\ logged' = [logged EXCEPT !.timing = TimingLogged(hist)]
            /\ pc' = "cleanupPage"
            /\ UNCHANGED <<renderStatus, dom, loop, hist>>
       ELSE /\ pc' = "renderCall"
            /\ loop' = NoLoop
            /\ UNCHANGED <<renderStatus, dom, error, hist, logged>>
    /\ UNCHANGED <<mainVars, input, worldVars, markdownContent, htmlContent, outcome, sideVars>>

EvaluateStart ==
    /\ pc = "evaluate"
    /\ \E ok \in BOOLEAN :
         IF ok
         THEN /\ IF Len(dom.diagrams) = 0
                 THEN /\ renderStatus' = [total |-> 0, rendered |-> 0, failed |-> 0]
                      /\ dom' = [dom EXCEPT !.debugDiv = DebugText("No diagrams found.")]
                      /\ pc' = "logStatus"
                 ELSE /\ pc' = "renderCall"
                      /\ UNCHANGED <<renderStatus, dom>>
              /\ loop' = NoLoop
              /\ UNCHANGED <<error, hist, logged>>
         ELSE /\ Throw(hist, "evaluate", PdfPrefix, "Execution context was destroyed")
              /\ UNCHANGED <<renderStatus, dom, loop>>
    /\ UNCHANGED <<mainVars, input, worldVars, markdownContent, htmlContent, outcome, sideVars>>

\* the head of an iteration: decode the source and call window.mermaid.render
RenderCall ==
    /\ pc = "renderCall"
    /\ \E k \in {loop.i + 1} :
       \E code \in {decodeURIComponent(dom.diagrams[k].attr)} :
           IF code.ok
           THEN /\ hist' = [hist EXCEPT !.renderCalls[k] = @ + 1, !.loopInFlight = TRUE]
                /\ dom' = [dom EXCEPT !.debugDiv = DebugText("Rendering diagram i/n...")]
                /\ pc' = "renderSettle"
                /\ UNCHANGED <<error, logged>>
           ELSE /\ Throw(hist, "evaluate", PdfPrefix, "URI malformed")
                /\ UNCHANGED dom
    /\ UNCHANGED <<mainVars, input, worldVars, markdownContent, htmlContent, loop,
                   renderStatus, outcome, sideVars>>

\* the end of an iteration with result r ("svg" or "error"): the write to the
\* placeholder, the counter, the pause, and the return after the last iteration
IterationEnds(r, debugText) ==
    LET k == loop.i + 1
        l == CountAfter(loop, r)
    IN  /\ dom' = [dom EXCEPT !.diagrams[k].content = r,
                              !.diagrams[k].innerHTML =
                                  InnerHtmlOf(r, decodeURIComponent(dom.diagrams[k].attr).val),
                              !.diagrams[k].writes = @ + 1,
                              !.debugDiv = DebugText(IF l.i < Len(dom.diagrams) THEN debugText
                                                     ELSE "n diagrams processed")]
        /\ loop' = l
        /\ hist' = [hist EXCEPT !.outcomes[k] = IF r = "svg" THEN "rendered" ELSE "failed",
                                !.written[k] =
                                    InnerHtmlOf(r, decodeURIComponent(dom.diagrams[k].attr).val),
                                !.loopInFlight = FALSE]
        /\ IF l.i < Len(dom.diagrams)
           THEN /\ pc' = "renderCall"
                /\ UNCHANGED renderStatus
           ELSE /\ pc' = "logStatus"
                /\ renderStatus' = StatusOf(l, Len(dom.diagrams))
        /\ UNCHANGED <<error, logged>>

\* the render resolved: the try block's tail
RenderSucceeded ==
    /\ pc = "renderSettle"
    /\ IterationEnds("svg", "i/n diagrams rendered successfully...")
    /\ UNCHANGED <<mainVars, input, worldVars, markdownContent, htmlContent, outcome, sideVars>>

\* a loop whose catch block rethrows instead of recording the failure
RenderFailedRethrows ==
    /\ pc = "renderSettle"
    /\ error' = <<PdfPrefix, "Parse error">>
    /\ hist' = [hist EXCEPT !.loopInFlight = FALSE]
    /\ logged' = [logged EXCEPT !.timing = TimingLogged(hist)]
    /\ pc' = "cleanupPage"
    /\ UNCHANGED <<dom, loop, renderStatus>>
    /\ UNCHANGED <<mainVars, input, worldVars, markdownContent, htmlContent, outcome, sideVars>>

\* the render threw or rejected: the catch block of the loop
RenderFailed ==
    /\ pc = "renderSettle"
    /\ IterationEnds("error", "Diagram i failed, continuing...")
    /\ UNCHANGED <<mainVars, input, worldVars, markdownContent, htmlContent, outcome, sideVars>>

\* logger.info('Progressive Mermaid rendering completed', ...)
LogStatus ==
    /\ pc = "logStatus"
    /\ logged' = [logged EXCEPT !.renderStatus = renderStatus]
    /\ pc' = IF debugEnabled THEN "debugFinal" ELSE "pdf"
    /\ hist' = [hist EXCEPT !.timing = IF debugEnabled THEN @ ELSE @ \cup {"diagramRender"}]
    /\ UNCHANGED <<mainVars, input, worldVars, markdownContent, htmlContent, dom, loop,
                   renderStatus, error, outcome, sideVars>>

\* if (debugEnabled) page.evaluate(...): the overlay shows the final counts
\* a final debug step that replaces the reported counts by the inspected ones
DebugFinalRecounts ==
    /\ pc = "debugFinal"
    /\ dom' = [dom EXCEPT !.debugDiv = DebugText("n diagrams, r rendered, f failed.")]
    /\ renderStatus' =
          [total |-> Len(dom.diagrams),
           rendered |-> Cardinality({k \in 1..Len(dom.diagrams) :
                                       dom.diagrams[k].content = "svg"}),
           failed |-> Cardinality({k \in 1..Len(dom.diagrams) :
                                     dom.diagrams[k].content = "error"})]
    /\ hist' = [hist EXCEPT !.timing = @ \cup {"diagramRender"}]
    /\ pc' = "pdf"
    /\ UNCHANGED <<error, logged>>
    /\ UNCHANGED <<mainVars, input, worldVars, markdownContent, htmlContent, loop,
                   outcome, sideVars>>

DebugFinal ==
    /\ pc = "debugFinal"
    /\ \E ok \in BOOLEAN :
         IF ok
         THEN /\ dom' = [dom EXCEPT !.debugDiv = DebugText("n diagrams, r rendered, f failed.")]
              /\ hist' = [hist EXCEPT !.timing = @ \cup {"diagramRender"}]
              /\ pc' = "pdf"
              /\ UNCHANGED <<error, logged>>
         ELSE /\ Throw(hist, "debugFinal", PdfPrefix, "Execution context was destroyed")
              /\ UNCHANGED dom
    /\ UNCHANGED <<mainVars, input, worldVars, markdownContent, htmlContent, loop,
                   renderStatus, outcome, sideVars>>

\* page.pdf(pdfOptions), then the success log lines of generatePdf and convertToPdf
Pdf ==
    /\ pc = "pdf"
    /\ \E ok \in BOOLEAN :
         IF ok
         THEN /\ hist' = [hist EXCEPT !.pdfCalls = @ + 1, !.pdfDone = TRUE,
                                      !.timing = @ \cup {"pdfGeneration", "generatePdf"}]
              /\ cli' = [cli EXCEPT !.written =
                            Append(@, cli.attempts[Len(cli.attempts)].outputFile)]
              /\ logged' = [logged EXCEPT !.pdfTiming = TRUE,
                               !.timing = TimingLogged(hist) \cup {"generatePdf"}]
              /\ error' = NoError
              /\ pc' = "cleanupPage"
         ELSE /\ Throw([hist EXCEPT !.pdfCalls = @ + 1], "pdf", PdfPrefix, "Printing failed")
              /\ UNCHANGED cli
    /\ UNCHANGED <<nFiles, fileIdx, successCount, errorCount, debugEnabled, input, worldVars, markdownContent, htmlContent, dom, loop,
                   renderStatus, outcome, sideVars>>

(***************************************************************************)
(* cleanup, called from the finally block of convertToPdf.  The fields     *)
(* this.page and this.browser are read as they are: cleanup does not reset *)
(* them, so they may still name the page and browser of an earlier         *)
(* conversion.  A close that throws leaves it open whether the page or     *)
(* browser was closed.                                                     *)
(***************************************************************************)

\* a cleanup whose catch block lets the close error replace the pending outcome
CloseErrorEscapes(pending) == <<"", "Protocol error: Connection closed">>

\* the catch block around a close: the error is logged as a warning and the
\* pending outcome of the conversion stays what it was
CloseErrorCaught(pending) == pending

\* a cleanup that closes the browser only when no error is pending
BrowserToCloseOnSuccessOnly == IF error = NoError THEN this.browser ELSE Null

\* the browser cleanup closes: if (this.browser)
BrowserToClose == this.browser

\* a converter that hands the timing and the counts to its caller
ResultWithTimingAndCounts ==
    [defined |-> TRUE, timing |-> logged.timing, renderStatus |-> renderStatus]

\* the value a fulfilled convertToPdf gives its caller: the function has no return
\* statement
ReturnValue == Undefined

CleanupPage ==
    /\ pc = "cleanupPage"
    /\ IF this.page # Null
       THEN \E r \in {"closed", "throwsClosed", "throwsOpen"} :
              /\ r = "throwsOpen" => pages[this.page].open
              /\ pages' = [pages EXCEPT ![this.page].closeCalls = @ + 1,
                                        ![this.page].open = (r = "throwsOpen")]
              /\ hist' = [hist EXCEPT !.cleanupCalls = @ + 1,
                                      !.errorBeforeCleanup = error,
                                      !.pageCloseThrew = (r # "closed")]
              /\ error' = IF r = "closed" THEN error ELSE CloseErrorCaught(error)
       ELSE /\ hist' = [hist EXCEPT !.cleanupCalls = @ + 1, !.errorBeforeCleanup = error]
            /\ UNCHANGED <<pages, error>>
    /\ pc' = "cleanupBrowser"
    /\ UNCHANGED <<mainVars, input, this, browsers, markdownContent, htmlContent, dom, loop,
                   renderStatus, outcome, logged, sideVars>>

CleanupBrowser ==
    /\ pc = "cleanupBrowser"
    /\ IF BrowserToClose # Null
       THEN \E r \in {"closed", "throwsClosed", "throwsLive"} :
              /\ r = "throwsLive" => browsers[BrowserToClose].live
              /\ browsers' = [browsers EXCEPT ![BrowserToClose].closeCalls = @ + 1,
                                              ![BrowserToClose].closeThrew = @ \/ (r # "closed"),
                                              ![BrowserToClose].live = (r = "throwsLive")]
              /\ pages' = [p \in 1..Len(pages) |->
                             IF pages[p].browser = BrowserToClose /\ r # "throwsLive"
                             THEN [pages[p] EXCEPT !.open = FALSE] ELSE pages[p]]
              /\ hist' = [hist EXCEPT !.browserCloseThrew = (r # "closed"),
                                      !.browserCloseCalls = @ + 1]
              /\ error' = IF r = "closed" THEN error ELSE CloseErrorCaught(error)
       ELSE UNCHANGED <<browsers, pages, hist, error>>
    /\ pc' = "settle"
    /\ UNCHANGED <<mainVars, input, this, markdownContent, htmlContent, dom, loop,
                   renderStatus, outcome, logged, sideVars>>

\* convertToPdf settles and main's try or catch counts the file
Settle ==
    /\ pc = "settle"
    /\ IF error = NoError
       THEN /\ outcome' = [kind |-> "returned", value |-> ReturnValue, error |-> NoError]
            /\ successCount' = successCount + 1
            /\ UNCHANGED <<errorCount, hist>>
       ELSE /\ outcome' = [kind |-> "threw", value |-> Undefined, error |-> error]
            /\ errorCount' = errorCount + 1
            /\ hist' = [hist EXCEPT !.thrown = @ + 1]
            /\ UNCHANGED successCount
    /\ pc' = "returned"
    /\ UNCHANGED <<nFiles, fileIdx, debugEnabled, cli, input, worldVars, markdownContent,
                   htmlContent, dom, loop, renderStatus, error, logged, sideVars>>

\* a loop that gives up after a failed conversion
NextFileStopsAfterFailure ==
    /\ pc = "returned"
    /\ pc' = IF outcome.kind = "threw" THEN "exit" ELSE "main"
    /\ cli' = IF outcome.kind = "threw" THEN [cli EXCEPT !.exitCode = <<1>>] ELSE cli
    /\ UNCHANGED <<nFiles, fileIdx, successCount, errorCount, debugEnabled, input, worldVars,
                   markdownContent, htmlContent, dom, loop, renderStatus, error, outcome,
                   logged, hist, sideVars>>

\* the for loop goes to its next file
NextFile ==
    /\ pc = "returned"
    /\ pc' = "main"
    /\ UNCHANGED <<mainVars, input, worldVars, markdownContent, htmlContent, dom, loop,
                   renderStatus, error, outcome, logged, hist, sideVars>>

\* the loop is over: the summary, and exit status 1 when a conversion failed
Finish ==
    /\ pc = "main"
    /\ fileIdx = nFiles
    /\ pc' = "exit"
    /\ cli' = [cli EXCEPT !.exitCode = IF errorCount > 0 THEN <<1>> ELSE <<0>>]
    /\ UNCHANGED <<nFiles, fileIdx, successCount, errorCount, debugEnabled, input, worldVars, markdownContent, htmlContent, dom, loop,
                   renderStatus, error, outcome, logged, hist, sideVars>>

Next ==
    \/ MainStart
    \/ StartConversion
    \/ initializeMermaid
    \/ readMarkdownFile
    \/ ProcessMarkdownStep
    \/ Launch
    \/ NewPage
    \/ SetContent
    \/ \E k \in 1..(MaxDiagrams + 1) : BootSettle(k)
    \/ WaitForMermaid
    \/ DebugSetup
    \/ EvaluateStart
    \/ RenderCall
    \/ RenderSucceeded
    \/ RenderFailed
    \/ LogStatus
    \/ DebugFinal
    \/ Pdf
    \/ CleanupPage
    \/ CleanupBrowser
    \/ Settle
    \/ NextFile
    \/ Finish

Spec == Init /\ [][Next]_vars

(***************************************************************************)
(* The text functions on their own: extractMermaidDiagrams and             *)
(* processMarkdown applied to every document made of at most MaxChunks     *)
(* chunks (a line of text, a blank line, a mermaid fence, a fence with a   *)
(* brace label, a line of three tildes).                                   *)
(***************************************************************************)
MaxChunks == 3

TextLine == <<"H", "i", "\n">>
BlankLine == <<"\n">>
GraphFence == FenceOf(KwGraph \o <<" ", "T", "D">>) \o <<"\n">>
BraceFence == Ticks \o <<"{">> \o DotMermaid \o <<"}", "\n">>
              \o KwPie \o <<" ", "$", "&", "\"", "<", "%", ">">> \o NlTicks \o <<"\n">>
TildeLine == <<"~", "~", "~", "\n">>
Chunks == {TextLine, BlankLine, GraphFence, BraceFence, TildeLine}

RECURSIVE DocsOfLen(_)
DocsOfLen(n) ==
    IF n = 0 THEN {<<>>} ELSE {c \o d : c \in Chunks, d \in DocsOfLen(n - 1)}

TextDocs == UNION {DocsOfLen(n) : n \in 0..MaxChunks}

TextInit ==
    /\ pc = "textStart"
    /\ nFiles = 1
    /\ cli = NoCli
    /\ fileIdx = 0
    /\ successCount = 0
    /\ errorCount = 0
    /\ debugEnabled = FALSE
    /\ input = [readable |-> TRUE, doc |-> <<>>]
    /\ this = [browser |-> Null, page |-> Null, mermaid |-> FALSE]
    /\ browsers = <<>>
    /\ pages = <<>>
    /\ markdownContent = <<>>
    /\ htmlContent = wrapInHtmlDocument(<<>>)
    /\ dom = NoDom
    /\ loop = NoLoop
    /\ renderStatus = NoStatus
    /\ error = NoError
    /\ outcome = NoOutcome
    /\ logged = NoLog
    /\ hist = HistInit
    /\ release = NoRelease
    /\ \E d \in TextDocs : text = [NoText EXCEPT !.doc = d]

pipelineFrame == <<mainVars, input, worldVars, markdownContent, htmlContent, dom, loop,
                   renderStatus, error, outcome, logged, hist>>

pipelineVars == <<pipelineFrame, release>>

\* this.extractMermaidDiagrams(markdownContent)
TextExtract ==
    /\ pc = "textStart"
    /\ text' = [text EXCEPT !.diagrams = extractMermaidDiagrams(text.doc)]
    /\ pc' = "textExtracted"
    /\ UNCHANGED pipelineVars

\* this.processMarkdown(markdownContent)
TextProcess ==
    /\ pc = "textExtracted"
    /\ text' = [text EXCEPT !.processed = processMarkdown(text.doc)]
    /\ pc' = "textDone"
    /\ UNCHANGED pipelineVars

TextNext == TextExtract \/ TextProcess

TextSpec == TextInit /\ [][TextNext]_vars


(***************************************************************************)
(* detectDiagramType on its own, applied to bodies made of an optional     *)
(* lead (nothing, a blank, an empty first line), a header line (the        *)
(* header of a supported kind as Mermaid writes it, an upper-case one, an  *)
(* unsupported one, none) and an optional rest (a title or a second line). *)
(***************************************************************************)
\* the header lines of the supported kinds, as Mermaid writes them
CanonicalHeaders ==
    <<<<"g","r","a","p","h">>,
      <<"f","l","o","w","c","h","a","r","t">>,
      <<"s","e","q","u","e","n","c","e","D","i","a","g","r","a","m">>,
      <<"c","l","a","s","s","D","i","a","g","r","a","m">>,
      <<"s","t","a","t","e","D","i","a","g","r","a","m">>,
      <<"e","r","D","i","a","g","r","a","m">>,
      <<"j","o","u","r","n","e","y">>,
      <<"g","a","n","t","t">>,
      <<"p","i","e">>,
      <<"g","i","t","G","r","a","p","h">>,
      <<"m","i","n","d","m","a","p">>,
      <<"t","i","m","e","l","i","n","e">>,
      <<"z","e","n","u","m","l">>,
      <<"s","a","n","k","e","y">>>>
OtherHeaders == {<<"G","R","A","P","H">>, <<"P","i","E">>, <<"x","y","c","h","a","r","t">>, <<>>}
Headers == Range(CanonicalHeaders) \cup OtherHeaders
Leads == {<<>>, <<" ">>, <<"\n">>}
Rests == {<<>>, <<" ","t","i","t","l","e"," ","U","s","e","r","s">>, <<"\n","g","a","n","t","t">>}
TypeBodies == {l \o h \o r : l \in Leads, h \in Headers, r \in Rests}

\* the pipeline is not running
PipelineIdle ==
    /\ nFiles = 1
    /\ cli = NoCli
    /\ fileIdx = 0
    /\ successCount = 0
    /\ errorCount = 0
    /\ debugEnabled = FALSE
    /\ input = [readable |-> TRUE, doc |-> <<>>]
    /\ this = [browser |-> Null, page |-> Null, mermaid |-> FALSE]
    /\ browsers = <<>>
    /\ pages = <<>>
    /\ markdownContent = <<>>
    /\ htmlContent = wrapInHtmlDocument(<<>>)
    /\ dom = NoDom
    /\ loop = NoLoop
    /\ renderStatus = NoStatus
    /\ error = NoError
    /\ outcome = NoOutcome
    /\ logged = NoLog
    /\ hist = HistInit

TypeInit ==
    /\ pc = "typeStart"
    /\ PipelineIdle
    /\ release = NoRelease
    /\ \E b \in TypeBodies : text = [NoText EXCEPT !.body = b]

\* this.detectDiagramType(code)
TextDetect ==
    /\ pc = "typeStart"
    /\ text' = [text EXCEPT !.type = detectDiagramType(text.body)]
    /\ pc' = "typeDone"
    /\ UNCHANGED pipelineVars

TypeNext == TextDetect

TypeSpec == TypeInit /\ [][TypeNext]_vars

(***************************************************************************)
(* scripts/release.js: ReleaseManager.run.  process.exit ends the run at   *)
(* once; exec is the list of the commands execSync was called with.        *)
(***************************************************************************)
ReleaseTypes ==
    [major |-> <<"m", "a", "j", "o", "r">>,
     minor |-> <<"m", "i", "n", "o", "r">>,
     patch |-> <<"p", "a", "t", "c", "h">>,
     premajor |-> <<"p", "r", "e", "m", "a", "j", "o", "r">>,
     preminor |-> <<"p", "r", "e", "m", "i", "n", "o", "r">>,
     prepatch |-> <<"p", "r", "e", "p", "a", "t", "c", "h">>,
     prerelease |-> <<"p", "r", "e", "r", "e", "l", "e", "a", "s", "e">>]

\* the spellings of the three options
Flags ==
    [dryRun |-> {<<"-", "-", "d", "r", "y", "-", "r", "u", "n">>, <<"-", "d">>},
     skipTests |-> {<<"-", "-", "s", "k", "i", "p", "-", "t", "e", "s", "t", "s">>,
                    <<"-", "s">>},
     force |-> {<<"-", "-", "f", "o", "r", "c", "e">>, <<"-", "f">>}]

\* the command lines of the runs: a first argument (a release type, one in
\* capitals, or something else) followed by up to two options, and the empty
\* command line
CommandLines ==
    LET first == {ReleaseTypes[k] : k \in DOMAIN ReleaseTypes} \cup {<<"P", "A", "T", "C", "H">>, <<"f", "i", "x">>}
        options == Flags.dryRun \cup Flags.skipTests \cup Flags.force
    IN  {<<>>} \cup {<<a>> : a \in first}
               \cup {<<a, o>> : a \in first, o \in options}
               \cup {<<a, o1, o2>> : a \in {ReleaseTypes.patch, ReleaseTypes.prerelease},
                                     o1 \in Flags.dryRun,
                                     o2 \in Flags.skipTests \cup Flags.force}

StartVersions ==
    {[major |-> 1, minor |-> 2, patch |-> 3, pre |-> <<>>, nan |-> FALSE],
     [major |-> 1, minor |-> 2, patch |-> 3, pre |-> <<0>>, nan |-> FALSE]}

ReleaseInit ==
    /\ pc = "release"
    /\ PipelineIdle
    /\ text = NoText
    /\ \E a \in CommandLines, v \in StartVersions, d \in BOOLEAN :
         release = [NoRelease EXCEPT
                      !.pc = "init", !.argv = a, !.dirty = d,
                      !.disk = [packageJson |-> v, dockerfile |-> v],
                      !.original = [packageJson |-> v, dockerfile |-> v]]

\* process.exit(code)
Exit(r, code) == [r EXCEPT !.pc = "exited", !.exitCode = <<code>>]

\* init: read and parse package.json
init ==
    /\ release.pc = "init"
    /\ \E ok \in BOOLEAN :
         release' = IF ok
                    THEN [release EXCEPT !.pc = "parseArguments",
                                         !.packageJson = release.disk.packageJson,
                                         !.currentVersion = release.disk.packageJson]
                    ELSE Exit(release, 1)
    /\ UNCHANGED <<pc, pipelineFrame, text>>

parseArguments ==
    /\ release.pc = "parseArguments"
    /\ \E args \in {release.argv} :
         release' =
            IF Len(args) = 0 THEN Exit(release, 1)
            ELSE IF ToLowerCase(args[1]) \notin {ReleaseTypes[k] : k \in DOMAIN ReleaseTypes}
                 THEN Exit([release EXCEPT !.releaseType = ToLowerCase(args[1])], 1)
                 ELSE [release EXCEPT
                         !.pc = "calculateNewVersion",
                         !.releaseType = ToLowerCase(args[1]),
                         !.dryRun = \E i \in 1..Len(args) : args[i] \in Flags.dryRun,
                         !.skipTests = \E i \in 1..Len(args) : args[i] \in Flags.skipTests,
                         !.force = \E i \in 1..Len(args) : args[i] \in Flags.force]
    /\ UNCHANGED <<pc, pipelineFrame, text>>

\* the switch of calculateNewVersion: Number of the third field is NaN when the
\* version has a suffix
NewVersion(v, type) ==
    CASE type = ReleaseTypes.major ->
           [major |-> v.major + 1, minor |-> 0, patch |-> 0, pre |-> <<>>, nan |-> FALSE]
      [] type = ReleaseTypes.minor ->
           [major |-> v.major, minor |-> v.minor + 1, patch |-> 0, pre |-> <<>>,
            nan |-> FALSE]
      [] type = ReleaseTypes.patch ->
           [major |-> v.major, minor |-> v.minor, patch |-> v.patch + 1, pre |-> <<>>,
            nan |-> v.pre # <<>>]
      [] type = ReleaseTypes.premajor ->
           [major |-> v.major + 1, minor |-> 0, patch |-> 0, pre |-> <<0>>, nan |-> FALSE]
      [] type = ReleaseTypes.preminor ->
           [major |-> v.major, minor |-> v.minor + 1, patch |-> 0, pre |-> <<0>>,
            nan |-> FALSE]
      [] type = ReleaseTypes.prepatch ->
           [major |-> v.major, minor |-> v.minor, patch |-> v.patch + 1, pre |-> <<0>>,
            nan |-> v.pre # <<>>]
      [] OTHER ->
           IF v.pre # <<>>
           THEN [v EXCEPT !.pre = <<v.pre[1] + 1>>]
           ELSE [major |-> v.major, minor |-> v.minor, patch |-> v.patch + 1,
                 pre |-> <<0>>, nan |-> FALSE]

calculateNewVersion ==
    /\ release.pc = "calculateNewVersion"
    /\ release' = [release EXCEPT
                     !.pc = "checkWorkingDirectory",
                     !.newVersion = NewVersion(release.currentVersion, release.releaseType)]
    /\ UNCHANGED <<pc, pipelineFrame, text>>

checkWorkingDirectory ==
    /\ release.pc = "checkWorkingDirectory"
    /\ \E ok \in BOOLEAN :
       \E r \in {[release EXCEPT !.exec = Append(@, "git status --porcelain")]} :
         release' = IF ~ok \/ (release.dirty /\ ~release.force)
                    THEN Exit(r, 1)
                    ELSE [r EXCEPT !.pc = "runTests"]
    /\ UNCHANGED <<pc, pipelineFrame, text>>

runTests ==
    /\ release.pc = "runTests"
    /\ IF release.skipTests
       THEN release' = [release EXCEPT !.pc = "updatePackageJson"]
       ELSE \E passed \in BOOLEAN :
            \E r \in {[release EXCEPT !.exec = Append(@, "npm test")]} :
              release' = IF ~passed /\ ~release.force
                         THEN Exit(r, 1)
                         ELSE [r EXCEPT !.pc = "updatePackageJson"]
    /\ UNCHANGED <<pc, pipelineFrame, text>>

updatePackageJson ==
    /\ release.pc = "updatePackageJson"
    /\ \E r \in {[release EXCEPT !.packageJson = release.newVersion]} :
         IF r.dryRun
         THEN release' = [r EXCEPT !.pc = "updateDockerfile"]
         ELSE \E ok \in BOOLEAN :
                release' = IF ok
                           THEN [r EXCEPT !.pc = "updateDockerfile",
                                         !.disk.packageJson = r.newVersion]
                           ELSE Exit(r, 1)
    /\ UNCHANGED <<pc, pipelineFrame, text>>

updateDockerfile ==
    /\ release.pc = "updateDockerfile"
    /\ \E r \in {"done", "throws"} :
         release' =
            IF r = "throws"
            THEN IF release.force THEN [release EXCEPT !.pc = "commitChanges"]
                 ELSE Exit(release, 1)
            ELSE IF release.dryRun THEN [release EXCEPT !.pc = "commitChanges"]
                 ELSE [release EXCEPT !.pc = "commitChanges",
                                      !.disk.dockerfile = release.newVersion]
    /\ UNCHANGED <<pc, pipelineFrame, text>>

\* a step that runs its commands whether or not this is a dry run
GitStepAlways(r, cmds, next) ==
    {[r EXCEPT !.pc = next, !.exec = @ \o cmds]}

\* a step of the run that calls execSync with the commands cmds in turn, unless
\* this is a dry run; a command that fails ends the run with status 1
GitStep(r, cmds, next) ==
    IF r.dryRun THEN {[r EXCEPT !.pc = next]}
    ELSE {[r EXCEPT !.pc = next, !.exec = @ \o cmds]}
         \cup {Exit([r EXCEPT !.exec = @ \o SubSeq(cmds, 1, n)], 1) : n \in 1..Len(cmds)}

commitChanges ==
    /\ release.pc = "commitChanges"
    /\ release' \in GitStep(release, <<"git add", "git commit">>, "createTag")
    /\ UNCHANGED <<pc, pipelineFrame, text>>

createTag ==
    /\ release.pc = "createTag"
    /\ release' \in GitStep(release, <<"git tag">>, "pushChanges")
    /\ UNCHANGED <<pc, pipelineFrame, text>>

pushChanges ==
    /\ release.pc = "pushChanges"
    /\ release' \in GitStep(release, <<"git push origin main", "git push origin --tags">>,
                           "showNextSteps")
    /\ UNCHANGED <<pc, pipelineFrame, text>>

showNextSteps ==
    /\ release.pc = "showNextSteps"
    /\ release' = [release EXCEPT !.pc = "completed"]
    /\ UNCHANGED <<pc, pipelineFrame, text>>

ReleaseNext ==
    \/ init
    \/ parseArguments
    \/ calculateNewVersion
    \/ checkWorkingDirectory
    \/ runTests
    \/ updatePackageJson
    \/ updateDockerfile
    \/ commitChanges
    \/ createTag
    \/ pushChanges
    \/ showNextSteps

ReleaseSpec == ReleaseInit /\ [][ReleaseNext]_vars

(***************************************************************************)
(* Properties of the conversion (Spec)                                     *)
(***************************************************************************)
AtReturn == pc = "returned"

\* the placeholders whose render in the loop threw or rejected
FailedIn(o) == {k \in 1..Len(o) : o[k] = "failed"}

\* every stage of the conversion other than the renders themselves worked
NoStageFault == hist.faults = {} /\ "contentSet" \in hist.timing

\* C1: when the only things that fail in a conversion are mermaid.render calls of
\* the render loop (any subset of the N placeholders), every placeholder still
\* gets its outcome from the loop, page.pdf is called once after the loop, and
\* convertToPdf returns instead of throwing.
C1_FaultIsolation ==
    (AtReturn /\ NoStageFault) =>
        /\ outcome.kind = "returned"
        /\ hist.pdfCalls = 1
        /\ hist.pdfDone
        /\ Len(hist.outcomes) = Len(dom.diagrams)
        /\ \A k \in 1..Len(hist.outcomes) : hist.outcomes[k] \in {"rendered", "failed"}

C1_Witness ==
    /\ AtReturn
    /\ NoStageFault
    /\ hist.outcomes = <<"failed", "rendered">>
    /\ outcome.kind = "returned"
    /\ hist.pdfCalls = 1

\* C2: inside the render loop rendered + failed is the number of iterations done
\* and failed is the number of placeholders whose render threw; the status the
\* loop reports has total = N, failed = the number of failed renders and
\* rendered = N - failed, and every placeholder has one outcome.
C2_Accounting ==
    /\ pc \in {"renderCall", "renderSettle"} =>
          /\ loop.rendered + loop.failed = loop.i
          /\ loop.failed = Cardinality(FailedIn(hist.outcomes))
          /\ \A k \in 1..Len(hist.outcomes) : (hist.outcomes[k] # "none") <=> (k <= loop.i)
    /\ renderStatus # NoStatus =>
          /\ renderStatus.total = Len(dom.diagrams)
          /\ renderStatus.failed = Cardinality(FailedIn(hist.outcomes))
          /\ renderStatus.rendered = renderStatus.total - renderStatus.failed
          /\ \A k \in 1..Len(hist.outcomes) : hist.outcomes[k] \in {"rendered", "failed"}

C2_Witness ==
    /\ renderStatus = [total |-> 2, rendered |-> 1, failed |-> 1]
    /\ hist.outcomes = <<"rendered", "failed">>

C4_CloseExactlyOnce ==
    AtReturn =>
        /\ \A b \in 1..Len(browsers) : browsers[b].closeCalls = 1
        /\ \A p \in 1..Len(pages) : pages[p].closeCalls = 1

\* C5: when page.close or browser.close throws during cleanup, convertToPdf ends
\* as it would have without the throw (a success returns, a failure throws the
\* error it had before cleanup), and browser.close is still called after a
\* page.close that threw.
C5_TeardownFailureKeepsOutcome ==
    (AtReturn /\ (hist.pageCloseThrew \/ hist.browserCloseThrew)) =>
        /\ hist.errorBeforeCleanup = NoError => outcome.kind = "returned"
        /\ hist.errorBeforeCleanup # NoError =>
              outcome.kind = "threw" /\ outcome.error = hist.errorBeforeCleanup
        /\ (hist.pageCloseThrew /\ this.browser # Null) => hist.browserCloseCalls = 1

C5_Witness ==
    /\ AtReturn
    /\ hist.pageCloseThrew
    /\ hist.browserCloseThrew
    /\ hist.browserCloseCalls = 1
    /\ outcome.kind = "returned"

\* C6: when window.mermaid is not defined after the content was set, the wait of
\* 10 seconds runs out and the conversion throws the wrapped timeout; no
\* mermaid.render call was made, nothing was written to a placeholder, page.pdf
\* was not called, and cleanup ran.
C6_WaitTimeoutIsFatal ==
    (AtReturn /\ "contentSet" \in hist.timing /\ ~dom.mermaid) =>
        /\ outcome.kind = "threw"
        /\ outcome.error = <<PdfPrefix, "Waiting failed: timeout exceeded">>
        /\ hist.waited = MermaidWaitTimeout
        /\ \A k \in 1..Len(hist.renderCalls) : hist.renderCalls[k] = 0
        /\ \A k \in 1..Len(dom.diagrams) : dom.diagrams[k].writes = 0
        /\ hist.pdfCalls = 0
        /\ hist.cleanupCalls = 1

C6_Witness ==
    /\ AtReturn
    /\ ~dom.mermaid
    /\ Len(dom.diagrams) = 2
    /\ hist.waited = MermaidWaitTimeout
    /\ outcome.kind = "threw"
    /\ hist.cleanupCalls = 1

\* C7: a conversion in which a stage failed throws to its caller; a conversion
\* that throws does so once, after cleanup was called, and page.pdf has not
\* completed in it.
C7_SingleTerminalFailure ==
    /\ hist.thrown <= 1
    /\ (AtReturn /\ hist.faults # {}) => outcome.kind = "threw"
    /\ outcome.kind = "threw" =>
          /\ hist.thrown = 1
          /\ hist.cleanupCalls = 1
          /\ ~hist.pdfDone
          /\ outcome.error # NoError

C7_Witness ==
    /\ AtReturn
    /\ hist.faults = {"pdf"}
    /\ outcome.kind = "threw"
    /\ outcome.error = <<PdfPrefix, "Printing failed">>
    /\ hist.cleanupCalls = 1

\* C8 as stated: a successful convertToPdf gives its caller a result object with
\* the timing buckets and the render counts.
C8_StructuredResult ==
    (AtReturn /\ outcome.kind = "returned") =>
        /\ outcome.value.defined
        /\ outcome.value.timing = logged.timing
        /\ outcome.value.renderStatus = renderStatus

\* C8: a successful convertToPdf gives its caller no value; the timing buckets
\* and the render counts (total, rendered, failed) of the conversion are written
\* to the logger only.
C8_ResultOnlyLogged ==
    (AtReturn /\ outcome.kind = "returned") =>
        /\ outcome.value = Undefined
        /\ {"readFile", "processMarkdown", "generatePdf", "total"} \subseteq logged.timing
        /\ logged.renderStatus = renderStatus
        /\ renderStatus # NoStatus

C8_Witness ==
    /\ AtReturn
    /\ outcome.kind = "returned"
    /\ outcome.value = Undefined
    /\ logged.renderStatus = [total |-> 2, rendered |-> 2, failed |-> 0]

(***************************************************************************)
(* Properties of the text functions (TextSpec)                             *)
(***************************************************************************)
TextDone == pc = "textDone" /\ text.processed.ok

\* C9: the assembled document has one placeholder element for each extracted
\* block, and the k-th element in document order carries the source of the k-th
\* block.
C9_PlaceholderCountAndOrder ==
    TextDone =>
        \E attrs \in {querySelectorAll(text.processed.fullHtml)} :
            /\ Len(attrs) = Len(text.diagrams)
            /\ \A k \in 1..Len(attrs) :
                  decodeURIComponent(attrs[k]) = [ok |-> TRUE, val |-> text.diagrams[k].code]

\* the opening tags of the placeholder markup in a text, in order: the value of
\* data-mermaid and whatever else the tag holds after it
RECURSIVE TagsIn(_)
TagsIn(t) ==
    With(IndexOfFrom(t, <<PhOpen>>, 1), LAMBDA o :
         IF o = 0 THEN <<>>
         ELSE With(MinOr({k \in (o + 1)..Len(t) : t[k] \in {PhAttrEnd, "\""}}, Len(t) + 1),
                   LAMBDA q :
              With(MinOr({k \in (o + 1)..Len(t) : t[k] = PhAttrEnd}, Len(t) + 1),
                   LAMBDA e :
                   <<[value |-> SubStr(t, o + 1, q - 1), others |-> SubStr(t, q, e - 1)]>>
                   \o TagsIn(SubStr(t, e + 1, Len(t))))))

\* C10 as stated: every placeholder substituted for a block carries the block's
\* type, its extraction index and its percent-encoded source.
C10_PayloadWithTypeAndIndex ==
    TextDone =>
        \E tags \in {TagsIn(text.processed.processedContent)} :
            /\ Len(tags) = Len(text.diagrams)
            /\ \A k \in 1..Len(tags) :
                  /\ tags[k].value = encodeURIComponent(text.diagrams[k].code).val
                  /\ text.diagrams[k].type \in Range(tags[k].others)
                  /\ IndexText(k - 1) \in Range(tags[k].others)

\* C10: every placeholder substituted for a block carries the block's
\* percent-encoded source in data-mermaid and nothing else; the type and the
\* extraction index of the block go to the debug log line of the substitution.
C10_PayloadIsEncodedSource ==
    TextDone =>
        \E tags \in {TagsIn(text.processed.processedContent)} :
            /\ Len(tags) = Len(text.diagrams)
            /\ \A k \in 1..Len(tags) :
                  /\ tags[k].value = encodeURIComponent(text.diagrams[k].code).val
                  /\ decodeURIComponent(tags[k].value).val = text.diagrams[k].code
                  /\ tags[k].others = <<>>
                  /\ text.processed.debugLog[k] =
                        [index |-> k - 1, type |-> text.diagrams[k].type]

C10_Witness ==
    /\ TextDone
    /\ Len(text.diagrams) = 2
    /\ text.diagrams[1].type = "flowchart"
    /\ text.diagrams[2].type = "pie"
    /\ Len(TagsIn(text.processed.processedContent)) = 2

(***************************************************************************)
(* Properties of the render step (Spec)                                    *)
(***************************************************************************)
\* the source the render loop decodes for placeholder k
SourceOf(k) == decodeURIComponent(dom.diagrams[k].attr).val

RendersInProgress == Cardinality(dom.bootPending) + (IF hist.loopInFlight THEN 1 ELSE 0)

\* C12: at most one mermaid.render call is in progress in the page at any time,
\* and a diagram's render has settled before the render of a later diagram is
\* started, over the bootstrap handler and the render loop together.
C12_SequentialRendering ==
    /\ RendersInProgress <= 1
    /\ \A k \in 1..Len(hist.renderCalls) : hist.renderCalls[k] <= 1

(***************************************************************************)
(* Properties of the classification (TypeSpec)                             *)
(***************************************************************************)
TypeDone == pc = "typeDone"

\* the predicates in their order: the keywords looked for and the tag returned
Predicates ==
    <<[kws |-> {KwGraph, KwFlowchart}, tag |-> "flowchart"],
      [kws |-> {KwSequence}, tag |-> "sequence"],
      [kws |-> {KwClass}, tag |-> "class"],
      [kws |-> {KwState}, tag |-> "state"],
      [kws |-> {KwEr}, tag |-> "er"],
      [kws |-> {KwJourney}, tag |-> "journey"],
      [kws |-> {KwGantt}, tag |-> "gantt"],
      [kws |-> {KwPie}, tag |-> "pie"],
      [kws |-> {KwGitgraph}, tag |-> "gitgraph"],
      [kws |-> {KwMindmap}, tag |-> "mindmap"],
      [kws |-> {KwTimeline}, tag |-> "timeline"],
      [kws |-> {KwZenuml}, tag |-> "zenuml"],
      [kws |-> {KwSankey}, tag |-> "sankey"]>>

\* the first predicate that holds of a line, 0 when none does
FirstPredicate(line) ==
    MinOr({i \in 1..Len(Predicates) : \E kw \in Predicates[i].kws : Includes(line, kw)}, 0)

\* C13: detectDiagramType returns the tag of the first predicate, in the fixed
\* order, whose keyword occurs in the first line of the body with the case
\* ignored, and "unknown" when there is none; bodies with the same first line
\* get the same tag.
C13_FirstMatchWins ==
    TypeDone =>
        /\ \E i \in {FirstPredicate(ToLowerCase(FirstLine(text.body)))} :
              text.type = IF i = 0 THEN "unknown" ELSE Predicates[i].tag
        /\ \A b \in TypeBodies :
              FirstLine(b) = FirstLine(text.body) => detectDiagramType(b) = text.type

C13_Witness ==
    /\ TypeDone
    /\ text.body = <<"P","i","E">> \o <<"\n","g","a","n","t","t">>
    /\ text.type = "pie"

\* the tag of the kind each canonical header belongs to
ExpectedTags == <<"flowchart", "flowchart", "sequence", "class", "state", "er", "journey",
                  "gantt", "pie", "gitgraph", "mindmap", "timeline", "zenuml", "sankey">>

\* C14: a body whose first line is the canonical header of a supported kind gets
\* the tag of that kind; a first line that contains gitgraph gets the tag
\* gitgraph, and a first line that starts with pie gets the tag pie whatever
\* follows on the line.
C14_OwnHeaderRecognised ==
    TypeDone =>
        \E line \in {Trim(FirstLine(text.body))} :
            /\ \A i \in 1..Len(CanonicalHeaders) :
                  line = CanonicalHeaders[i] => text.type = ExpectedTags[i]
            /\ Includes(ToLowerCase(line), KwGitgraph) => text.type = "gitgraph"
            /\ IsPrefixAt(ToLowerCase(line), KwPie, 1) => text.type = "pie"

(***************************************************************************)
(* Properties of the extraction (TextSpec)                                 *)
(***************************************************************************)
\* the label of a diagram fence: the word mermaid, or a brace group that
\* contains .mermaid
IsDiagramLabel(lang) ==
    \/ lang = MermaidLabel
    \/ /\ Len(lang) >= 2
       /\ lang[1] = "{"
       /\ lang[Len(lang)] = "}"
       /\ Includes(lang, DotMermaid)

\* the fenced code blocks of a document with a diagram label, in source order
RECURSIVE DiagramFences(_)
DiagramFences(blocks) ==
    IF blocks = <<>> THEN <<>>
    ELSE (IF Head(blocks).kind = "code" /\ IsDiagramLabel(Head(blocks).lang)
          THEN <<Head(blocks).text>> ELSE <<>>)
         \o DiagramFences(Tail(blocks))

\* C15: extractMermaidDiagrams returns one block for each fenced code block of
\* the document whose label is mermaid or a brace group with .mermaid, in source
\* order, with the trimmed body as code and the classification of the body as
\* type; it returns the empty sequence when there is no such fence.
C15_OneBlockPerDiagramFence ==
    pc \in {"textExtracted", "textDone"} =>
        \E fences \in {DiagramFences(marked(text.doc))} :
            /\ Len(text.diagrams) = Len(fences)
            /\ \A k \in 1..Len(fences) :
                  /\ text.diagrams[k].code = Trim(fences[k])
                  /\ text.diagrams[k].type = detectDiagramType(fences[k])

\* C16: the markdown transform runs once, on the text left after every
\* extracted block has been replaced by its placeholder: that text contains
\* neither the matched fence nor the source of any extracted block (a source
\* that percent-encoding leaves unchanged is present only as the attribute
\* value), and the assembled document is the transform of exactly that text.
C16_NoSourceReachesMarked ==
    TextDone =>
        /\ text.processed.fullHtml
              = wrapInHtmlDocument(marked(text.processed.processedContent))
        /\ \A k \in 1..Len(text.diagrams) :
              /\ ~Includes(text.processed.processedContent, text.diagrams[k].fullMatch)
              /\ encodeURIComponent(text.diagrams[k].code).val # text.diagrams[k].code
                    => ~Includes(text.processed.processedContent, text.diagrams[k].code)

\* two blocks were replaced, one of them with a replacement pattern in its source
C16_Witness ==
    /\ TextDone
    /\ Len(text.diagrams) = 2
    /\ \E k \in 1..2 : Includes(text.diagrams[k].code, <<"$", "&">>)
    /\ text.processed.processedContent # text.doc

\* C17: assembling succeeds whatever characters the diagrams hold, and the
\* source decoded from each placeholder's data-mermaid attribute is exactly the
\* extracted source: index by index in the text handed to marked, and for every
\* placeholder element of the assembled document.
C17_EncodingRoundTrip ==
    pc = "textDone" =>
        /\ text.processed.ok
        /\ \E attrs \in {AttributesIn(text.processed.processedContent)} :
              /\ Len(attrs) = Len(text.diagrams)
              /\ \A k \in 1..Len(attrs) :
                    decodeURIComponent(attrs[k])
                        = [ok |-> TRUE, val |-> text.diagrams[k].code]
        /\ \E elems \in {querySelectorAll(text.processed.fullHtml)} :
              /\ \A j \in 1..Len(elems) :
                    \E k \in 1..Len(text.diagrams) :
                        decodeURIComponent(elems[j])
                            = [ok |-> TRUE, val |-> text.diagrams[k].code]
              /\ Len(elems) = Len(text.diagrams) =>
                    \A k \in 1..Len(elems) :
                        decodeURIComponent(elems[k]).val = text.diagrams[k].code

\* a source with characters significant to HTML, to percent-decoding and to
\* replacement patterns went through a placeholder element
C17_Witness ==
    /\ TextDone
    /\ \E k \in 1..Len(text.diagrams) :
          /\ {"$", "&", "\"", "<", "%", ">"} \subseteq Range(text.diagrams[k].code)
          /\ Len(querySelectorAll(text.processed.fullHtml)) >= k

\* C25: the type assigned to a body is the one of its first non-empty line,
\* also when the body begins with empty or whitespace-only lines.
C25_FirstNonEmptyLineDecides ==
    TypeDone => text.type = TypeOfLine(ToLowerCase(Trim(FirstLine(Trim(text.body)))))

(***************************************************************************)
(* Properties of whole conversions (Spec)                                  *)
(***************************************************************************)
\* the document of the current conversion was processed and has no backtick,
\* hence no fence
ZeroDiagrams ==
    /\ "processMarkdown" \in hist.timing
    /\ \A i \in 1..Len(markdownContent) : markdownContent[i] # BQ

\* C18: for a document without a diagram fence processMarkdown substitutes
\* nothing (marked gets the input text, the assembled document has no
\* placeholder), no mermaid.render is called, the render step reports total 0,
\* rendered 0, failed 0, and a conversion in which no stage fails calls page.pdf
\* and returns.
C18_ZeroDiagrams ==
    ZeroDiagrams =>
        \* right after processMarkdown; the texts do not change later
        /\ pc = "launch" =>
              /\ extractMermaidDiagrams(markdownContent) = <<>>
              /\ processMarkdown(markdownContent).processedContent = markdownContent
              /\ htmlContent = wrapInHtmlDocument(marked(markdownContent))
              /\ querySelectorAll(htmlContent) = <<>>
        /\ dom.diagrams = <<>>
        /\ hist.renderCalls = <<>>
        /\ dom.bootPending = {}
        /\ ~hist.loopInFlight
        /\ pc \in {"logStatus", "debugFinal", "pdf"} =>
              renderStatus = [total |-> 0, rendered |-> 0, failed |-> 0]
        /\ (AtReturn /\ hist.faults = {}) =>
              /\ logged.renderStatus = [total |-> 0, rendered |-> 0, failed |-> 0]
              /\ hist.pdfCalls = 1
              /\ hist.pdfDone
              /\ outcome.kind = "returned"

\* a conversion of a document without fences went through the render step and
\* page.pdf
C18_Witness ==
    /\ ZeroDiagrams
    /\ AtReturn
    /\ hist.faults = {}
    /\ markdownContent # <<>>
    /\ logged.renderStatus = [total |-> 0, rendered |-> 0, failed |-> 0]
    /\ hist.pdfDone

\* C19: when the source file cannot be read, convertToPdf fails with an error
\* whose message starts with 'Failed to read markdown file: ', no browser is
\* launched in that conversion and page.pdf is not called.
C19_ReadFailure ==
    /\ ~input.readable =>
          /\ hist.launched = 0
          /\ hist.pdfCalls = 0
          /\ ~hist.pdfDone
          /\ (AtReturn /\ "initializeMermaid" \notin hist.faults) =>
                "readMarkdownFile" \in hist.faults
    /\ "readMarkdownFile" \in hist.faults =>
          /\ ~input.readable
          /\ error = <<ReadPrefix, "ENOENT">>
          /\ AtReturn =>
                /\ outcome.kind = "threw"
                /\ outcome.error[1] = ReadPrefix

\* the second file of a batch is unreadable, after a first conversion that
\* launched a browser
C19_Witness ==
    /\ AtReturn
    /\ fileIdx = 2
    /\ browsers # <<>>
    /\ ~input.readable
    /\ outcome.kind = "threw"
    /\ outcome.error[1] = ReadPrefix
    /\ hist.launched = 0

\* the browsers that are live and whose close has not thrown
LiveBrowsers == {b \in 1..Len(browsers) : browsers[b].live /\ ~browsers[b].closeThrew}

StageDone ==
    <<"readFile" \in hist.timing,
      "processMarkdown" \in hist.timing,
      hist.launched = 1,
      "browserInit" \in hist.timing,
      "contentSet" \in hist.timing,
      "mermaidLoad" \in hist.timing,
      "diagramRender" \in hist.timing,
      hist.pdfCalls >= 1,
      hist.cleanupCalls >= 1>>

StageAt ==
    <<{"readMarkdownFile"}, {"processMarkdown"}, {"launch"}, {"newPage"}, {"setContent"},
      {"waitForFunction"},
      {"debugSetup", "evaluate", "renderCall", "renderSettle", "logStatus", "debugFinal"},
      {"pdf"}, {"cleanupPage"}>>

WithContent(c) == {k \in 1..Len(dom.diagrams) : dom.diagrams[k].content = c}

Observed == <<dom.diagrams, dom.bootPending, loop, renderStatus, logged.renderStatus,
              hist.renderCalls, hist.outcomes, hist.written, error>>

UnwrappedStages == {"initializeMermaid", "processMarkdown"}

\* C28 as stated: every error convertToPdf throws carries one of the two
\* prefixes, whichever step failed.
C28_EveryFailureWrapped ==
    AtReturn /\ outcome.kind = "threw" => outcome.error[1] \in {ReadPrefix, PdfPrefix}

\* C28: an error convertToPdf throws carries 'Failed to read markdown file: '
\* when the read failed and 'PDF generation failed: ' when a step of generatePdf
\* failed, each followed by the cause; a failure of initializeMermaid or of
\* processMarkdown reaches the caller as the bare cause, without a prefix.
C28_WrappedByStage ==
    AtReturn /\ outcome.kind = "threw" =>
       /\ Cardinality(hist.faults) = 1
       /\ outcome.error[2] # ""
       /\ outcome.error[1] = (IF "readMarkdownFile" \in hist.faults THEN ReadPrefix
                              ELSE IF hist.faults \cap UnwrappedStages # {} THEN ""
                              ELSE PdfPrefix)

\* the second conversion of a batch threw the bare cause of a failed import, as
\* the first had done
C28_Witness ==
    /\ AtReturn
    /\ outcome.kind = "threw"
    /\ hist.faults = {"initializeMermaid"}
    /\ outcome.error = <<"", "Cannot find module">>
    /\ errorCount = 2

\* C27 as stated: in one conversion mermaid.render is invoked once for each
\* placeholder over the bootstrap handler and the page.evaluate loop together,
\* and each placeholder's innerHTML is written once.
C27_RenderedExactlyOnce ==
    /\ \A k \in 1..Len(dom.diagrams) :
          /\ hist.renderCalls[k] <= 1
          /\ dom.diagrams[k].writes <= 1
    /\ pc = "pdf" =>
          \A k \in 1..Len(dom.diagrams) :
             hist.renderCalls[k] = 1 /\ dom.diagrams[k].writes = 1

\* C29: the steps after the wait are reached only with window.mermaid defined,
\* whatever the number of placeholders; a conversion whose page never defines it
\* throws the timeout of the wait after MermaidWaitTimeout and page.pdf is not
\* called, also for a document without any diagram.
C29_WaitIsUnconditional ==
    /\ pc \in {"debugSetup", "evaluate", "renderCall", "logStatus", "debugFinal", "pdf"} =>
          dom.mermaid /\ "mermaidLoad" \in hist.timing
    /\ pc \in {"cleanupPage", "cleanupBrowser", "settle", "returned"}
          /\ "contentSet" \in hist.timing /\ ~dom.mermaid =>
          /\ hist.faults = {"waitForFunction"}
          /\ error = <<PdfPrefix, "Waiting failed: timeout exceeded">>
          /\ hist.waited = MermaidWaitTimeout
          /\ hist.pdfCalls = 0
          /\ ~hist.pdfDone
    /\ AtReturn /\ "waitForFunction" \in hist.faults =>
          outcome.kind = "threw" /\ Len(cli.written) = successCount

\* a conversion of a document without diagrams threw the timeout of the wait
C29_Witness ==
    /\ AtReturn
    /\ ZeroDiagrams
    /\ Len(dom.diagrams) = 0
    /\ ~dom.mermaid
    /\ hist.faults = {"waitForFunction"}
    /\ outcome.kind = "threw"
    /\ outcome.error = <<PdfPrefix, "Waiting failed: timeout exceeded">>
    /\ cli.written = <<>>

(***************************************************************************)
(* Properties of the batch (Spec)                                          *)
(***************************************************************************)

\* the names attempted so far
Attempted == [i \in 1..Len(cli.attempts) |-> cli.attempts[i].file]

\* C26: the files attempted are the markdown files of the listing, each once and
\* in listing order, whatever became of the earlier ones; when the loop has ended
\* every markdown file was attempted, successCount + errorCount is their number
\* and the exit status is 1 exactly when errorCount > 0; the status is 0 when no
\* markdown file is found and 1 when the input directory is missing.
C26_BatchIsolation ==
    /\ Len(cli.attempts) = fileIdx
    /\ Attempted = SubStr(cli.markdownFiles, 1, fileIdx)
    /\ pc # "start" /\ cli.exitCode # <<1>> =>
          /\ Len(cli.markdownFiles) = Cardinality({i \in 1..Len(cli.files) :
                                                     IsMarkdown(cli.files[i])})
          /\ \A i \in 1..Len(cli.markdownFiles) :
                \E j \in 1..Len(cli.files) :
                   /\ cli.files[j] = cli.markdownFiles[i]
                   /\ IsMarkdown(cli.files[j])
                   /\ i = Cardinality({k \in 1..j : IsMarkdown(cli.files[k])})
    /\ pc \in {"main", "returned"} => successCount + errorCount = fileIdx
    /\ pc = "exit" /\ ~cli.exists => cli.exitCode = <<1>> /\ cli.attempts = <<>>
    /\ pc = "exit" /\ cli.exists /\ cli.exitCode = <<0>> /\ fileIdx = 0 =>
          \A j \in 1..Len(cli.files) : ~IsMarkdown(cli.files[j])
    /\ pc = "exit" /\ cli.markdownFiles # <<>> =>
          /\ Attempted = cli.markdownFiles
          /\ successCount + errorCount = Len(cli.markdownFiles)
          /\ cli.exitCode = IF errorCount > 0 THEN <<1>> ELSE <<0>>

\* a batch of two markdown files has ended after its first conversion failed and
\* its second succeeded
C26_Witness ==
    /\ pc = "exit"
    /\ Len(cli.markdownFiles) = 2
    /\ Len(cli.files) = 3
    /\ errorCount = 1
    /\ successCount = 1
    /\ Len(cli.written) = 1
    /\ cli.written[1] = cli.attempts[2].outputFile
    /\ cli.exitCode = <<1>>

\* C30: any two distinct markdown files of a batch are given distinct output
\* paths, and no output written by a conversion is written again by a later
\* conversion of the batch.
C30_DistinctOutputs ==
    /\ \A i, j \in 1..Len(cli.attempts) :
          cli.attempts[i].file # cli.attempts[j].file =>
             cli.attempts[i].outputFile # cli.attempts[j].outputFile
    /\ \A i, j \in 1..Len(cli.written) : i # j => cli.written[i] # cli.written[j]

(***************************************************************************)
(* Properties of the release script (ReleaseSpec)                          *)
(***************************************************************************)
DryRunRequested ==
    \E i \in 1..Len(release.argv) : release.argv[i] \in Flags.dryRun

\* C21: a run of the release script with --dry-run or -d, whatever the release
\* type, leaves package.json and the Dockerfile as they were and runs no git
\* add, commit, tag or push.
C21_DryRunChangesNothing ==
    DryRunRequested =>
        /\ release.disk = release.original
        /\ \A i \in 1..Len(release.exec) :
              release.exec[i] \in {"git status --porcelain", "npm test"}

\* a dry run went through every step of the run
C21_Witness ==
    /\ DryRunRequested
    /\ release.pc = "completed"
    /\ release.newVersion # release.currentVersion
    /\ release.packageJson = release.newVersion
    /\ release.disk = release.original


=============================================================================
